---- MODULE Spec2Model ----
(***************************************************************************)
(* Call session state machine of Caltora / Optenor BizBot.                *)
(*                                                                         *)
(* The repository holds two servers that answer the same Twilio webhooks  *)
(* (/voice and /handle-input) over the same SQLite file:                  *)
(*   src/app.py         multi-tenant server: users, call_sessions,        *)
(*                      call_logs, MAX_CALL_STEPS, message and ai mode;   *)
(*   src/app_backup.py  single-tenant server: call_state, call_logs,      *)
(*                      messages, detect_intent and the staged dialog.    *)
(* A deployment runs one of them; `program` says which.                   *)
(*                                                                         *)
(* Text is modelled by TLA+ strings; Python's str.strip, str.lower and    *)
(* the `in` substring test are computed character by character.           *)
(* Timestamp columns (created_at_utc, updated_at_utc, ts_utc, created_at, *)
(* updated_at) and the AUTOINCREMENT id of call_logs and messages are     *)
(* left out of the rows: no handler reads them.  call_logs, which only    *)
(* grows and is never read by a webhook, is therefore a bag of rows.      *)
(***************************************************************************)
EXTENDS Integers, Sequences, FiniteSets, Bags, TLC

VARIABLES
    program,        \* which server file is deployed
    openai_client,  \* app.py: "None" or "client" (set once at import)
    users,          \* app.py: table users, a sequence of rows
    call_sessions,  \* app.py: table call_sessions, a sequence of rows
    call_state,     \* app_backup.py: table call_state, a sequence of rows
    messages,       \* app_backup.py: table messages, a sequence of rows
    call_logs,      \* both: table call_logs, a bag of rows (INSERT only)
    call_to,        \* telephony layer: the number each call dialed
    call_status,    \* telephony layer: "in-progress" or "completed"
    turns,          \* telephony layer: /handle-input turns delivered per call
    silent,         \* telephony layer: turns delivered without speech
    mode_changes,   \* number of /set-mode requests that changed the mode
    ai_calls,       \* number of requests sent to the generative provider
    turn,           \* the request handled last and the response it got
    workers         \* request handlers in the middle of a session-store call

vars == <<program, openai_client, users, call_sessions, call_state, messages,
          call_logs, call_to, call_status, turns, silent, mode_changes, ai_calls,
          turn, workers>>

-----------------------------------------------------------------------------
(* Bounds of the model *)

\* /handle-input turns the telephony layer delivers for one call
MaxTurns == 10
\* turns without speech the telephony layer delivers
MaxSilentTurns == 2
\* /set-mode requests that change the tenant's mode
MaxModeChanges == 1
\* requests that reach the generative provider (openai_client present)
MaxResponderCalls == 1

(* Program constants *)

\* app.py: MAX_CALL_STEPS = int(os.getenv("MAX_CALL_STEPS", "8"))
MAX_CALL_STEPS == 8

None == "None"

Calls == {"CA1"}
FromNumber == "+15550199"
TenantNumber == "+15550100"

-----------------------------------------------------------------------------
(* Text helpers: Python str methods on TLA+ strings *)

Whitespace == {" ", "\t", "\n", "\r"}
UpperCase == "ABCDEFGHIJKLMNOPQRSTUVWXYZ"
LowerCase == "abcdefghijklmnopqrstuvwxyz"

CharAt(s, i) == SubSeq(s, i, i)

RECURSIVE lstrip(_)
lstrip(s) ==
    IF Len(s) > 0 /\ CharAt(s, 1) \in Whitespace
    THEN lstrip(SubSeq(s, 2, Len(s)))
    ELSE s

RECURSIVE rstrip(_)
rstrip(s) ==
    IF Len(s) > 0 /\ CharAt(s, Len(s)) \in Whitespace
    THEN rstrip(SubSeq(s, 1, Len(s) - 1))
    ELSE s

\* str.strip()
strip(s) == rstrip(lstrip(s))

\* the lower-case letter of each upper-case letter
ToLower ==
    [c \in {CharAt(UpperCase, i) : i \in 1..26} |->
        CharAt(LowerCase, CHOOSE i \in 1..26 : CharAt(UpperCase, i) = c)]

lower_char(c) == IF c \in DOMAIN ToLower THEN ToLower[c] ELSE c

RECURSIVE lower(_)
\* str.lower()
lower(s) ==
    IF s = "" THEN "" ELSE lower_char(CharAt(s, 1)) \o lower(SubSeq(s, 2, Len(s)))

\* k in t  (substring test)
Contains(k, t) ==
    \E i \in 1..(Len(t) - Len(k) + 1) : SubSeq(t, i, i + Len(k) - 1) = k

RECURSIVE replace_spaces(_)
\* s.replace(" ", "")  and SQL REPLACE(s, ' ', '')
replace_spaces(s) ==
    IF s = "" THEN ""
    ELSE (IF CharAt(s, 1) = " " THEN "" ELSE CharAt(s, 1))
         \o replace_spaces(SubSeq(s, 2, Len(s)))

\* app.py norm_phone
norm_phone(s) == strip(replace_spaces(s))

-----------------------------------------------------------------------------
(* Dictionaries (the JSON objects held in data_json / capture_json) *)

EmptyDict == [k \in {} |-> ""]

\* a store that overwrites the stored object with the patch
dict_replace(existing, patch) == patch

\* dict.update: keys of patch are added or overwritten, nothing is removed
dict_update(existing, patch) ==
    [k \in (DOMAIN existing) \cup (DOMAIN patch) |->
        IF k \in DOMAIN patch THEN patch[k] ELSE existing[k]]

\* d[key] = value
dict_set(d, key, value) == dict_update(d, [k \in {key} |-> value])

\* d.get(key): the default the caller passes is dropped, a missing key reads
\* as a false value
dict_get_no_default(d, key, default) == IF key \in DOMAIN d THEN d[key] ELSE FALSE

\* d.get(key, default)
dict_get(d, key, default) == IF key \in DOMAIN d THEN d[key] ELSE default

\* json.dumps of a dict: the column holds the encoded object
json_dumps(d) == <<d>>

\* app.py safe_json: json.loads(s) if s else default
safe_json(s, default) == IF s = <<>> THEN default ELSE s[1]

-----------------------------------------------------------------------------
(* TwiML responses: a sequence of verbs *)

Say(text) == [verb |-> "Say", says |-> <<text>>]
Gather(prompts) == [verb |-> "Gather", says |-> prompts]
Hangup == [verb |-> "Hangup", says |-> <<>>]

HasVerb(vr, v) == \E i \in 1..Len(vr) : vr[i].verb = v
Listens(vr) == HasVerb(vr, "Gather")
Spoken(vr) == UNION {{vr[i].says[j] : j \in 1..Len(vr[i].says)} : i \in 1..Len(vr)}

-----------------------------------------------------------------------------
(* app.py: tables and the session store *)

\* cursor.fetchone(): the first row of the result, or no row
fetchone(rows) == IF rows = <<>> THEN <<>> ELSE <<rows[1]>>

\* SELECT * FROM call_sessions WHERE call_sid=?
select_session(tbl, call_sid) == SelectSeq(tbl, LAMBDA r : r.call_sid = call_sid)

\* an INSERT into a call_sessions table that has no key on call_sid
insert_session_no_key(tbl, row) == [ok |-> TRUE, tbl |-> Append(tbl, row)]

\* INSERT INTO call_sessions: call_sid is the PRIMARY KEY, so the insert of a
\* second row with the same call_sid raises sqlite3.IntegrityError
insert_session(tbl, row) ==
    IF select_session(tbl, row.call_sid) # <<>>
    THEN [ok |-> FALSE, tbl |-> tbl]
    ELSE [ok |-> TRUE, tbl |-> Append(tbl, row)]

\* a new session whose counter starts at 1
NewSession_counted(call_sid, user_id) ==
    [call_sid |-> call_sid, user_id |-> user_id, stage |-> "root",
     step_count |-> 1, data_json |-> json_dumps(EmptyDict)]

\* the row get_or_create_session inserts
NewSession(call_sid, user_id) ==
    [call_sid |-> call_sid, user_id |-> user_id, stage |-> "root",
     step_count |-> 0, data_json |-> json_dumps(EmptyDict)]

\* a get-or-create that writes a fresh row over the stored one (INSERT OR REPLACE)
get_or_create_session_reset(tbl, call_sid, user_id) ==
    LET tbl2 == Append(SelectSeq(tbl, LAMBDA r : r.call_sid # call_sid),
                       NewSession(call_sid, user_id))
    IN [row |-> NewSession(call_sid, user_id), tbl |-> tbl2]

get_or_create_session(tbl, call_sid, user_id) ==
    LET row == fetchone(select_session(tbl, call_sid)) IN
    IF row # <<>>
    THEN [row |-> row[1], tbl |-> tbl]
    ELSE LET tbl2 == insert_session(tbl, NewSession(call_sid, user_id)).tbl IN
         [row |-> fetchone(select_session(tbl2, call_sid))[1], tbl |-> tbl2]

\* update_session that writes a record for a call that has none
update_session_upsert(tbl, call_sid, stage, data, bump_step) ==
    LET row == fetchone(select_session(tbl, call_sid)) IN
    IF row = <<>>
    THEN Append(tbl, [call_sid |-> call_sid, user_id |-> 1,
                      stage |-> IF stage # None THEN stage ELSE "root",
                      step_count |-> IF bump_step THEN 1 ELSE 0,
                      data_json |-> json_dumps(data)])
    ELSE LET existing == dict_update(safe_json(row[1].data_json, EmptyDict), data)
             new_stage == IF stage # None THEN stage ELSE row[1].stage
             step_count == row[1].step_count + (IF bump_step THEN 1 ELSE 0)
         IN [i \in 1..Len(tbl) |->
                IF tbl[i].call_sid = call_sid
                THEN [tbl[i] EXCEPT !.stage = new_stage,
                                    !.step_count = step_count,
                                    !.data_json = json_dumps(existing)]
                ELSE tbl[i]]

\* stage = None keeps the stored stage; data is merged into the stored dict
update_session(tbl, call_sid, stage, data, bump_step) ==
    LET row == fetchone(select_session(tbl, call_sid)) IN
    IF row = <<>> THEN tbl
    ELSE LET existing == dict_update(safe_json(row[1].data_json, EmptyDict), data)
             new_stage == IF stage # None THEN stage ELSE row[1].stage
             step_count == row[1].step_count + (IF bump_step THEN 1 ELSE 0)
         IN [i \in 1..Len(tbl) |->
                IF tbl[i].call_sid = call_sid
                THEN [tbl[i] EXCEPT !.stage = new_stage,
                                    !.step_count = step_count,
                                    !.data_json = json_dumps(existing)]
                ELSE tbl[i]]

\* an UPDATE of call_sessions that has lost its WHERE clause
sql_update_session_all(tbl, call_sid, new_stage, step_count, data_json) ==
    [i \in 1..Len(tbl) |->
        [tbl[i] EXCEPT !.stage = new_stage, !.step_count = step_count,
                       !.data_json = data_json]]

\* UPDATE call_sessions SET stage=?, step_count=?, data_json=? WHERE call_sid=?
sql_update_session(tbl, call_sid, new_stage, step_count, data_json) ==
    [i \in 1..Len(tbl) |->
        IF tbl[i].call_sid = call_sid
        THEN [tbl[i] EXCEPT !.stage = new_stage, !.step_count = step_count,
                            !.data_json = data_json]
        ELSE tbl[i]]

\* a DELETE that is never committed: the table stays as it was
delete_session_uncommitted(tbl, call_sid) == tbl

\* DELETE FROM call_sessions WHERE call_sid=?
delete_session(tbl, call_sid) == SelectSeq(tbl, LAMBDA r : r.call_sid # call_sid)

\* an INSERT INTO call_logs whose stage and transcript values are bound the
\* wrong way round
log_call_swapped(logs, user_id, call_sid, to_number, from_number, stage, transcript, bot_reply) ==
    logs (+) SetToBag({[user_id |-> user_id, call_sid |-> call_sid, to_number |-> to_number,
                  from_number |-> from_number, intent |-> None, stage |-> transcript,
                  transcript |-> stage, bot_reply |-> bot_reply]})

\* app.py log_call: INSERT INTO call_logs (app_backup.py has no user_id column
\* and app.py no intent column; the column a server lacks holds 0 / None)
log_call(logs, user_id, call_sid, to_number, from_number, stage, transcript, bot_reply) ==
    logs (+) SetToBag({[user_id |-> user_id, call_sid |-> call_sid, to_number |-> to_number,
                  from_number |-> from_number, intent |-> None, stage |-> stage,
                  transcript |-> transcript, bot_reply |-> bot_reply]})

\* a lookup that has lost its WHERE clause: SELECT * FROM users LIMIT 1
find_user_any(to_number) == fetchone(users)

\* SELECT * FROM users WHERE REPLACE(bizbot_number,' ','') = REPLACE(?,' ','') LIMIT 1
find_user_by_to_number(to_number) ==
    LET n == norm_phone(to_number) IN
    fetchone(SelectSeq(users, LAMBDA r :
        r.bizbot_number # None /\ replace_spaces(r.bizbot_number) = replace_spaces(n)))

template_greeting(business_name, business_type) ==
    LET bn == IF business_name \in {None, ""} THEN "our business" ELSE business_name
        bt == lower(IF business_type = None THEN "" ELSE business_type)
    IN  IF Contains("clinic", bt) \/ Contains("medical", bt)
        THEN "Thanks for calling " \o bn \o ". How can I help?"
        ELSE IF Contains("salon", bt) \/ Contains("barber", bt)
        THEN "Thanks for calling " \o bn \o ". How can I help you today?"
        ELSE IF Contains("repair", bt)
        THEN "Thanks for calling " \o bn \o ". What can I help you with?"
        ELSE "Thanks for calling " \o bn \o ". How can I help?"

DefaultCapture ==
    [k \in {"collect_reason", "collect_name", "collect_callback",
            "collect_preferred_time"} |-> TRUE]

\* What the provider does with one request: raise, or return output_text
ResponderOutcomes ==
    { [raises |-> FALSE, output_text |-> "We open at nine."],
      [raises |-> FALSE, output_text |-> "Okay, goodbye."],
      [raises |-> FALSE, output_text |-> " "],
      [raises |-> TRUE,  output_text |-> ""] }

AiUnavailable == "Thanks. I can take a message-what's your name and callback number?"
AiEmpty == "Sorry-I didn't catch that. What's your name and callback number?"
AiFailed == "Sorry-there was a problem. Please leave your name and callback number."

ai_reply(business_name, faqs, caller_text, outcome) ==
    IF openai_client = None THEN AiUnavailable
    ELSE IF outcome.raises THEN AiFailed
    ELSE LET out == strip(outcome.output_text) IN
         IF out # "" THEN out ELSE AiEmpty

-----------------------------------------------------------------------------
(* app.py: the webhooks, each as a function of the request and the stored   *)
(* state: the tables after the request, the TwiML returned, the return     *)
(* statement taken (branch) and whether the provider was asked             *)

NotLinkedVoice == "This number is not linked to a business yet. Please call back later."
NotLinked == "This number is not linked to a business yet."
Apology == "Sorry, something went wrong. Please call back later."
Reprompt == "Sorry, I didn't catch that. Please repeat."
Goodbye == "Goodbye."
Confirmation == "Perfect. We'll get back to you soon. Goodbye."

\* a cap that stops the call one step early
cap_exceeded_early(step_count) == step_count >= MAX_CALL_STEPS

\* a cap that lets one more step through
cap_exceeded_late(step_count) == step_count > MAX_CALL_STEPS + 1

\* the safety cap: int(sess["step_count"] or 0) > MAX_CALL_STEPS
cap_exceeded(step_count) == step_count > MAX_CALL_STEPS

\* app.py voice()
voice(call_sid, from_number, to_number) ==
    LET user == find_user_by_to_number(to_number) IN
    IF user = <<>>
    THEN [users |-> users, sessions |-> call_sessions,
          vr |-> <<Say(NotLinkedVoice), Hangup>>, branch |-> "not_linked"]
    ELSE
    LET marked == [i \in 1..Len(users) |->
                      IF users[i].id = user[1].id
                      THEN [users[i] EXCEPT !.last_voice_utc = "now"]
                      ELSE users[i]]
        goc == get_or_create_session(call_sessions, call_sid, user[1].id)
        sess == goc.row
        greeting == IF user[1].greeting \notin {None, ""}
                    THEN user[1].greeting
                    ELSE template_greeting(user[1].business_name, user[1].business_type)
    IN  IF cap_exceeded(sess.step_count)
        THEN [users |-> marked, sessions |-> goc.tbl,
              vr |-> <<Say(Apology), Hangup>>, branch |-> "cap"]
        ELSE [users |-> marked, sessions |-> goc.tbl,
              vr |-> <<Gather(<<greeting, "Please tell me what you need.">>),
                       Say("Sorry, I didn't catch that. Goodbye."), Hangup>>,
              branch |-> "greeting"]

\* the message-capture branch of handle_input (mode == "message")
message_mode(user, call_sid, from_number, to_number, speech, tbl, stage, data, capture) ==
    LET listen(bot) == <<Gather(<<bot>>), Say(Goodbye)>>
        logged(bot) == log_call(call_logs, user.id, call_sid, to_number, from_number,
                                stage, speech, bot)
    IN
    IF stage = "root"
    THEN [sessions |-> update_session(tbl, call_sid, "ask_name",
                                      dict_set(data, "reason", speech), TRUE),
          logs |-> logged("Thanks. What's your name?"),
          vr |-> listen("Thanks. What's your name?"),
          branch |-> "root", asked |-> FALSE]
    ELSE IF stage = "ask_name"
    THEN [sessions |-> update_session(tbl, call_sid, "ask_callback",
                                      dict_set(data, "name", speech), TRUE),
          logs |-> logged("Thanks. What's the best callback number?"),
          vr |-> listen("Thanks. What's the best callback number?"),
          branch |-> "ask_name", asked |-> FALSE]
    ELSE IF stage = "ask_callback"
    THEN IF dict_get(capture, "collect_preferred_time", TRUE)
         THEN [sessions |-> update_session(tbl, call_sid, "ask_time",
                                           dict_set(data, "callback", speech), TRUE),
               logs |-> logged("Got it. What's a good time to call you back?"),
               vr |-> listen("Got it. What's a good time to call you back?"),
               branch |-> "ask_callback", asked |-> FALSE]
         ELSE [sessions |-> delete_session(
                                update_session(tbl, call_sid, "done",
                                               dict_set(data, "callback", speech), TRUE),
                                call_sid),
               logs |-> logged(Confirmation),
               vr |-> <<Say(Confirmation), Hangup>>,
               branch |-> "ask_callback_done", asked |-> FALSE]
    ELSE IF stage = "ask_time"
    THEN [sessions |-> delete_session(
                           update_session(tbl, call_sid, "done",
                                          dict_set(data, "preferred_time", speech), TRUE),
                           call_sid),
          logs |-> logged(Confirmation),
          vr |-> <<Say(Confirmation), Hangup>>,
          branch |-> "ask_time", asked |-> FALSE]
    ELSE [sessions |-> delete_session(tbl, call_sid),
          logs |-> logged("Thanks for calling. Goodbye."),
          vr |-> <<Say("Thanks for calling. Goodbye."), Hangup>>,
          branch |-> "other_stage", asked |-> FALSE]

\* the AI branch with the stage left out of the update_session call
ai_mode_stage_unset(user, call_sid, from_number, to_number, speech, tbl, stage, outcome) ==
    LET bot == ai_reply(IF user.business_name \in {None, ""} THEN "Optenor BizBot"
                        ELSE user.business_name,
                        IF user.faqs = None THEN "" ELSE user.faqs, speech, outcome)
    IN [sessions |-> update_session(tbl, call_sid, None,
                                    [k \in {"last_user"} |-> speech], TRUE),
        logs |-> log_call(call_logs, user.id, call_sid, to_number, from_number,
                          stage, speech, bot),
        vr |-> <<Gather(<<bot, "Anything else?">>), Say(Goodbye), Hangup>>,
        branch |-> "ai", asked |-> openai_client # None]

\* the AI branch of handle_input
ai_mode(user, call_sid, from_number, to_number, speech, tbl, stage, outcome) ==
    LET bot == ai_reply(IF user.business_name \in {None, ""} THEN "Optenor BizBot"
                        ELSE user.business_name,
                        IF user.faqs = None THEN "" ELSE user.faqs, speech, outcome)
    IN [sessions |-> update_session(tbl, call_sid, "ai",
                                    [k \in {"last_user"} |-> speech], TRUE),
        logs |-> log_call(call_logs, user.id, call_sid, to_number, from_number,
                          stage, speech, bot),
        vr |-> <<Gather(<<bot, "Anything else?">>), Say(Goodbye), Hangup>>,
        branch |-> "ai", asked |-> openai_client # None]

\* app.py handle_input()
handle_input(call_sid, from_number, to_number, SpeechResult, outcome) ==
    LET speech == strip(SpeechResult)
        user == find_user_by_to_number(to_number)
    IN
    IF user = <<>>
    THEN [sessions |-> call_sessions, logs |-> call_logs,
          vr |-> <<Say(NotLinked), Hangup>>, branch |-> "not_linked", asked |-> FALSE]
    ELSE
    LET goc == get_or_create_session(call_sessions, call_sid, user[1].id)
        sess == goc.row
        stage == strip(IF sess.stage \in {None, ""} THEN "root" ELSE sess.stage)
        step_count == sess.step_count
    IN
    IF cap_exceeded(step_count)
    THEN [sessions |-> delete_session(goc.tbl, call_sid), logs |-> call_logs,
          vr |-> <<Say(Apology), Hangup>>, branch |-> "cap", asked |-> FALSE]
    ELSE
    LET data == safe_json(sess.data_json, EmptyDict)
        capture == safe_json(user[1].capture_json, DefaultCapture)
        mode == lower(strip(IF user[1].mode \in {None, ""} THEN "message"
                            ELSE user[1].mode))
    IN
    IF speech = ""
    THEN [sessions |-> goc.tbl,
          logs |-> log_call(call_logs, user[1].id, call_sid, to_number, from_number,
                            stage, "", Reprompt),
          vr |-> <<Gather(<<Reprompt>>), Say(Goodbye)>>,
          branch |-> "no_speech", asked |-> FALSE]
    ELSE IF mode = "message"
    THEN message_mode(user[1], call_sid, from_number, to_number, speech, goc.tbl,
                      stage, data, capture)
    ELSE ai_mode(user[1], call_sid, from_number, to_number, speech, goc.tbl,
                 stage, outcome)

\* app.py set_mode(): the tenant switches the dialog mode of their account
set_mode(user_id, mode_field) ==
    LET m == lower(strip(IF mode_field = "" THEN "message" ELSE mode_field))
        mode == IF m \notin {"message", "ai"} THEN "message" ELSE m
    IN [i \in 1..Len(users) |->
           IF users[i].id = user_id THEN [users[i] EXCEPT !.mode = mode] ELSE users[i]]

-----------------------------------------------------------------------------
(* app_backup.py: call_state, messages, the classifier and the webhooks *)

\* SELECT * FROM call_state WHERE call_sid = ?
select_state(tbl, call_sid) == SelectSeq(tbl, LAMBDA r : r.call_sid = call_sid)

\* app_backup.py get_state
get_state(tbl, call_sid) ==
    LET row == fetchone(select_state(tbl, call_sid)) IN
    IF row = <<>>
    THEN [intent |-> None, stage |-> "root", data |-> EmptyDict]
    ELSE [intent |-> row[1].intent,
          stage |-> IF row[1].stage \in {None, ""} THEN "root" ELSE row[1].stage,
          data |-> safe_json(row[1].data_json, EmptyDict)]

\* set_state as INSERT OR IGNORE: a stored record is left as it is
set_state_insert_or_ignore(tbl, call_sid, intent, stage, data) ==
    IF select_state(tbl, call_sid) = <<>>
    THEN Append(tbl, [call_sid |-> call_sid, intent |-> intent, stage |-> stage,
                      data_json |-> json_dumps(data)])
    ELSE tbl

\* app_backup.py set_state: INSERT ... ON CONFLICT(call_sid) DO UPDATE
set_state(tbl, call_sid, intent, stage, data) ==
    IF select_state(tbl, call_sid) = <<>>
    THEN Append(tbl, [call_sid |-> call_sid, intent |-> intent, stage |-> stage,
                      data_json |-> json_dumps(data)])
    ELSE [i \in 1..Len(tbl) |->
             IF tbl[i].call_sid = call_sid
             THEN [tbl[i] EXCEPT !.intent = intent, !.stage = stage,
                                 !.data_json = json_dumps(data)]
             ELSE tbl[i]]

\* a clear_state whose DELETE is never committed
clear_state_uncommitted(tbl, call_sid) == tbl

\* app_backup.py clear_state
clear_state(tbl, call_sid) == SelectSeq(tbl, LAMBDA r : r.call_sid # call_sid)

\* app_backup.py log_call
backup_log_call(logs, call_sid, from_number, to_number, intent, stage, transcript, bot_reply) ==
    logs (+) SetToBag({[user_id |-> 0, call_sid |-> call_sid, to_number |-> to_number,
                  from_number |-> from_number, intent |-> intent, stage |-> stage,
                  transcript |-> transcript, bot_reply |-> bot_reply]})

\* an INSERT INTO messages whose name and phone values are bound the wrong
\* way round
insert_message_swapped(tbl, call_sid, from_number, name, phone, message, intent) ==
    Append(tbl, [call_sid |-> call_sid, from_number |-> from_number, name |-> phone,
                 phone |-> name, message |-> message, intent |-> intent])

\* INSERT INTO messages
insert_message(tbl, call_sid, from_number, name, phone, message, intent) ==
    Append(tbl, [call_sid |-> call_sid, from_number |-> from_number, name |-> name,
                 phone |-> phone, message |-> message, intent |-> intent])

AppointmentWords == {"appointment", "book", "booking", "schedule", "reserve"}
HoursWords == {"hours", "open", "opening", "closing", "close", "when are you open",
               "what time"}
PricingWords == {"price", "pricing", "cost", "how much", "rate", "fees"}
HumanWords == {"human", "agent", "representative", "operator", "call me back",
               "callback", "speak to"}
MessageWords == {"leave a message", "message", "voicemail"}

\* a classifier that wants the utterance to be the keyword
detect_intent_exact(text) ==
    LET t == lower(strip(text))
        any(words) == \E k \in words : k = t
    IN  IF any(AppointmentWords) THEN "appointment"
        ELSE IF any(HoursWords) THEN "hours"
        ELSE IF any(PricingWords) THEN "pricing"
        ELSE IF any(HumanWords) THEN "message"
        ELSE IF any(MessageWords) THEN "message"
        ELSE "general"

\* a classifier that forgets .lower()
detect_intent_case_sensitive(text) ==
    LET t == strip(text)
        any(words) == \E k \in words : Contains(k, t)
    IN  IF any(AppointmentWords) THEN "appointment"
        ELSE IF any(HoursWords) THEN "hours"
        ELSE IF any(PricingWords) THEN "pricing"
        ELSE IF any(HumanWords) THEN "message"
        ELSE IF any(MessageWords) THEN "message"
        ELSE "general"

\* a classifier that tests the hours keywords before the appointment keywords
detect_intent_hours_first(text) ==
    LET t == lower(strip(text))
        any(words) == \E k \in words : Contains(k, t)
    IN  IF any(HoursWords) THEN "hours"
        ELSE IF any(AppointmentWords) THEN "appointment"
        ELSE IF any(PricingWords) THEN "pricing"
        ELSE IF any(HumanWords) THEN "message"
        ELSE IF any(MessageWords) THEN "message"
        ELSE "general"

\* app_backup.py detect_intent
detect_intent(text) ==
    LET t == lower(strip(text))
        any(words) == \E k \in words : Contains(k, t)
    IN  IF any(AppointmentWords) THEN "appointment"
        ELSE IF any(HoursWords) THEN "hours"
        ELSE IF any(PricingWords) THEN "pricing"
        ELSE IF any(HumanWords) THEN "message"
        ELSE IF any(MessageWords) THEN "message"
        ELSE "general"

\* make_gather with the prompt and the closing sentence left unsaid
make_gather_silent(action_url, prompt) == <<Gather(<<>>)>>

\* app_backup.py make_gather
make_gather(action_url, prompt) ==
    <<Gather(<<prompt>>), Say("I did not catch that. Goodbye.")>>

\* app_backup.py voice(): reads and writes no table
backup_voice ==
    << Say("Notice: This call may be recorded for quality and training purposes."),
       Say("Hello. Thanks for calling. How can I help you today?"),
       Gather(<<"You can say appointments, hours, pricing, or leave a message.">>),
       Say("I did not hear anything. Goodbye.") >>

\* a root stage that logs the general fallback under the intent it stores
backup_root_one_label(call_sid, from_number, to_number, speech) ==
    LET intent == detect_intent(speech)
        data == [k \in {"first_utterance"} |-> speech]
        go(stored_intent, logged_intent, stage, reply) ==
            [state |-> set_state(call_state, call_sid, stored_intent, stage, data),
             logs |-> backup_log_call(call_logs, call_sid, from_number, to_number,
                                      logged_intent, "root", speech, reply),
             messages |-> messages,
             vr |-> make_gather("/handle-input", reply),
             branch |-> "root_" \o logged_intent]
    IN  IF intent = "hours"
        THEN go(intent, intent, "hours_location",
                "What city or location are you asking about?")
        ELSE IF intent = "pricing"
        THEN go(intent, intent, "pricing_details",
                "Which service are you asking about, and what is the size of your request?")
        ELSE IF intent = "appointment"
        THEN go(intent, intent, "appt_datetime",
                "Sure. What day and time would you like the appointment?")
        ELSE IF intent = "message"
        THEN go(intent, intent, "msg_name", "Of course. Please tell me your name.")
        ELSE go("message", "message", "msg_name",
                "Thanks. I can help best by taking a message. Please tell me your name.")

\* the root stage of app_backup.py handle_input
backup_root(call_sid, from_number, to_number, speech) ==
    LET intent == detect_intent(speech)
        data == [k \in {"first_utterance"} |-> speech]
        go(stored_intent, logged_intent, stage, reply) ==
            [state |-> set_state(call_state, call_sid, stored_intent, stage, data),
             logs |-> backup_log_call(call_logs, call_sid, from_number, to_number,
                                      logged_intent, "root", speech, reply),
             messages |-> messages,
             vr |-> make_gather("/handle-input", reply),
             branch |-> "root_" \o logged_intent]
    IN  IF intent = "hours"
        THEN go(intent, intent, "hours_location",
                "What city or location are you asking about?")
        ELSE IF intent = "pricing"
        THEN go(intent, intent, "pricing_details",
                "Which service are you asking about, and what is the size of your request?")
        ELSE IF intent = "appointment"
        THEN go(intent, intent, "appt_datetime",
                "Sure. What day and time would you like the appointment?")
        ELSE IF intent = "message"
        THEN go(intent, intent, "msg_name", "Of course. Please tell me your name.")
        ELSE go("message", "general", "msg_name",
                "Thanks. I can help best by taking a message. Please tell me your name.")

\* app_backup.py handle_input()
backup_handle_input(call_sid, from_number, to_number, speech) ==
    LET st == get_state(call_state, call_sid)
        stage == st.stage
        intent == st.intent
        data == st.data
        \* a stage that stores speech.strip() under key, moves on and listens
        step(key, stored_intent, logged_intent, next, reply) ==
            [state |-> set_state(call_state, call_sid, stored_intent, next,
                                 dict_set(data, key, strip(speech))),
             logs |-> backup_log_call(call_logs, call_sid, from_number, to_number,
                                      logged_intent, stage, speech, reply),
             messages |-> messages,
             vr |-> make_gather("/handle-input", reply),
             branch |-> stage]
        \* a stage that stores speech.strip() under key, records a message and ends
        finish(key, message_of(_), message_intent, logged_intent, reply) ==
            LET d == dict_set(data, key, strip(speech)) IN
            [state |-> clear_state(call_state, call_sid),
             logs |-> backup_log_call(call_logs, call_sid, from_number, to_number,
                                      logged_intent, stage, speech, reply),
             messages |-> insert_message(messages, call_sid, from_number,
                                         dict_get(d, "name", ""), dict_get(d, "phone", ""),
                                         message_of(d), message_intent),
             vr |-> <<Say(reply)>>,
             branch |-> stage]
        appt_message(d) == "Appointment request: " \o dict_get(d, "appt_datetime", "")
                           \o " | First: " \o dict_get(d, "first_utterance", "")
        body_message(d) == dict_get(d, "message", "")
    IN
    IF strip(speech) = ""
    THEN IF stage = "root"
         THEN [state |-> call_state,
               logs |-> backup_log_call(call_logs, call_sid, from_number, to_number,
                            intent, stage, speech,
                            "I did not catch that. Please repeat what you need."),
               messages |-> messages,
               vr |-> <<Gather(<<"I did not catch that. Please repeat what you need.">>),
                        Say(Goodbye)>>,
               branch |-> "no_speech_root"]
         ELSE [state |-> clear_state(call_state, call_sid),
               logs |-> backup_log_call(call_logs, call_sid, from_number, to_number,
                            intent, stage, speech, "I still did not catch that. Goodbye."),
               messages |-> messages,
               vr |-> <<Say("I still did not catch that. Goodbye.")>>,
               branch |-> "no_speech"]
    ELSE IF stage = "root"
    THEN backup_root(call_sid, from_number, to_number, speech)
    ELSE IF stage = "hours_location"
    THEN step("location", intent, intent, "msg_name",
              "Thanks. I noted " \o strip(speech) \o ". Our hours vary by location. I will have the team confirm and follow up. Please tell me your name.")
    ELSE IF stage = "pricing_details"
    THEN step("pricing_details", intent, intent, "msg_name",
              "Thanks. I noted that. Please tell me your name so the team can respond with accurate pricing.")
    ELSE IF stage = "appt_datetime"
    THEN step("appt_datetime", intent, intent, "appt_name",
              "Got it. Please tell me your name.")
    ELSE IF stage = "appt_name"
    THEN step("name", intent, intent, "appt_phone",
              "Thanks. Finally, please confirm the best phone number for a callback.")
    ELSE IF stage = "appt_phone"
    THEN finish("phone", appt_message, "appointment", intent,
                "Perfect. I have your appointment request and contact details. The team will confirm shortly. Goodbye.")
    ELSE IF stage = "msg_name"
    THEN step("name", "message", "message", "msg_phone",
              "Thanks. Please confirm the best phone number for a callback.")
    ELSE IF stage = "msg_phone"
    THEN step("phone", "message", "message", "msg_body",
              "Great. Now, please say your message.")
    ELSE IF stage = "msg_body"
    THEN finish("message", body_message,
                IF dict_get(data, "intent", "") # "" THEN dict_get(data, "intent", "message")
                ELSE "message",
                "message",
                "Thank you. Your message has been recorded and someone will follow up shortly. Goodbye.")
    ELSE [state |-> clear_state(call_state, call_sid),
          logs |-> backup_log_call(call_logs, call_sid, from_number, to_number,
                       intent, stage, speech,
                       "Thanks. Let me restart. Please tell me how I can help."),
          messages |-> messages,
          vr |-> make_gather("/handle-input",
                             "Thanks. Let me restart. Please tell me how I can help."),
          branch |-> "restart"]

-----------------------------------------------------------------------------
(* The state machine: the telephony layer delivers requests, one at a time *)

Programs == {"app.py", "app_backup.py"}

\* what a caller may say when asked the open question, and when asked a
\* follow-up question; "" and " " are turns without speech
Utterances == {"", " ", "Book a visit ", "opening hours", "how much",
               "call me back", "hello", "leave a message",
               "book opening hours", "Open price list", "cost of a callback"}
Answers == {"", " Ann "}
\* what a caller of app_backup.py answers to the question a stage asked
AnswersAt(stage) ==
    {"", IF stage = "appt_datetime" THEN " Tuesday 3pm "
         ELSE IF stage \in {"appt_phone", "msg_phone"} THEN "5550123"
         ELSE " Ann "}

DefaultOutcome == [raises |-> FALSE, output_text |-> "We open at nine."]

\* the session record of a call, as a sequence of at most one row
Session(call_sid) ==
    IF program = "app.py" THEN select_session(call_sessions, call_sid)
    ELSE select_state(call_state, call_sid)

\* request handlers that run at the same time (section 5 of the design: one
\* worker per webhook request, sharing only the database)
Workers == {"w1", "w2"}
Idle == [pc |-> "idle", call_sid |-> "", user_id |-> 0, row |-> <<>>]

NoTurn ==
    [route |-> "none", call_sid |-> "", speech |-> "", retry |-> FALSE,
     before |-> <<>>, vr |-> <<>>, branch |-> "", logged |-> 0, silent_run |-> 0,
     stored |-> 0, deleted |-> [c \in Calls |-> 0]]

\* rows users can hold: a provisioned tenant and an account without a number
Tenant(mode, capture_json) ==
    [id |-> 1, business_name |-> "Acme", business_type |-> "Repair Shop",
     greeting |-> "Thanks for calling Acme. What can I help you with?",
     faqs |-> "Hours:\nLocation:\n", mode |-> mode, capture_json |-> capture_json,
     bizbot_number |-> TenantNumber, last_voice_utc |-> None]
Unprovisioned ==
    [id |-> 2, business_name |-> None, business_type |-> None, greeting |-> None,
     faqs |-> None, mode |-> "message", capture_json |-> json_dumps(DefaultCapture),
     bizbot_number |-> None, last_voice_utc |-> None]
NoPreferredTime ==
    json_dumps([DefaultCapture EXCEPT !["collect_preferred_time"] = FALSE])

\* the session of another call, to the tenant's number, that is under way
OtherSession ==
    [call_sid |-> "CA0", user_id |-> 1, stage |-> "ask_name", step_count |-> 1,
     data_json |-> json_dumps([k \in {"reason"} |-> "Bob"])]

\* the deployments the model starts from: the server file, whether the
\* provider client exists, the tenant's mode and capture flags when the call
\* comes in, and the number the caller dialed
Deployments ==
    { [program |-> "app.py", openai_client |-> None, mode |-> "message",
       capture_json |-> json_dumps(DefaultCapture), to |-> "+15550100"],
      [program |-> "app.py", openai_client |-> None, mode |-> "ai",
       capture_json |-> json_dumps(DefaultCapture), to |-> " +1 555 0100"],
      [program |-> "app.py", openai_client |-> "client", mode |-> "ai",
       capture_json |-> json_dumps(DefaultCapture), to |-> "+15550100"],
      [program |-> "app.py", openai_client |-> None, mode |-> "message",
       capture_json |-> NoPreferredTime, to |-> "+15550100"],
      [program |-> "app.py", openai_client |-> None, mode |-> "message",
       capture_json |-> json_dumps(DefaultCapture), to |-> "+15550177",
       sessions |-> <<OtherSession>>],
      [program |-> "app.py", openai_client |-> None, mode |-> "message",
       capture_json |-> json_dumps(DefaultCapture), to |-> "+1-555-0100"],
      [program |-> "app_backup.py", openai_client |-> None, mode |-> "message",
       capture_json |-> <<>>, to |-> "+15550100"] }

InitOf(d) ==
    /\ program = d.program
    /\ openai_client = d.openai_client
    /\ users = IF d.program = "app.py"
               THEN <<Tenant(d.mode, d.capture_json), Unprovisioned>> ELSE <<>>
    /\ call_sessions = IF "sessions" \in DOMAIN d THEN d.sessions ELSE <<>>
    /\ call_state = <<>>
    /\ messages = <<>>
    /\ call_logs = EmptyBag
    /\ call_to = [c \in Calls |-> d.to]
    /\ call_status = [c \in Calls |-> "in-progress"]
    /\ turns = [c \in Calls |-> 0]
    /\ silent = 0
    /\ mode_changes = 0
    /\ ai_calls = 0
    /\ turn = NoTurn
    /\ workers = [w \in Workers |-> Idle]

Init == \E d \in Deployments : InitOf(d)

\* the telephony layer keeps the call up while the response holds a Gather
StatusAfter(vr) == IF Listens(vr) THEN "in-progress" ELSE "completed"

IsSilent(speech) == strip(speech) = ""

\* the stage a request for the call finds: that of the record, else root
StageOf(rows) == IF rows = <<>> THEN "root" ELSE rows[1].stage

\* how many turns without speech in a row, this one included, the call has
\* had at the stage this turn finds
SilentRun(c, speech) ==
    IF ~IsSilent(speech) THEN 0
    ELSE IF /\ turn.route = "/handle-input" /\ turn.call_sid = c /\ turn.silent_run > 0
            /\ StageOf(turn.before) = StageOf(Session(c))
         THEN turn.silent_run + 1
         ELSE 1

\* how often requests have deleted the session record of each call, this
\* request included (it found `before` and leaves `after`)
Deleted(c, before, after) ==
    [turn.deleted EXCEPT ![c] = IF before # <<>> /\ after = <<>> THEN @ + 1 ELSE @]

\* what the provider may answer to the next request
Outcomes == IF openai_client = None THEN {DefaultOutcome} ELSE ResponderOutcomes

\* one request to app.py /handle-input, with the provider answering `outcome`
AppRequest(c, speech, outcome, is_retry) ==
    \E r \in {handle_input(c, FromNumber, call_to[c], speech, outcome)} :
       /\ r.asked \/ outcome = DefaultOutcome
       /\ r.asked => ai_calls < MaxResponderCalls
       /\ call_sessions' = r.sessions
       /\ call_logs' = r.logs
       /\ ai_calls' = IF r.asked THEN ai_calls + 1 ELSE ai_calls
       /\ call_status' = [call_status EXCEPT ![c] = StatusAfter(r.vr)]
       /\ turn' = [route |-> "/handle-input", call_sid |-> c, speech |-> speech,
                   retry |-> is_retry, before |-> Session(c), vr |-> r.vr,
                   branch |-> r.branch,
                   logged |-> BagCardinality(r.logs) - BagCardinality(call_logs),
                   silent_run |-> SilentRun(c, speech),
                   stored |-> 0,
                   deleted |-> Deleted(c, Session(c),
                                       select_session(r.sessions, c))]
       /\ turns' = [turns EXCEPT ![c] = @ + 1]
       /\ silent' = IF IsSilent(speech) THEN silent + 1 ELSE silent
       /\ UNCHANGED <<program, openai_client, users, call_state, messages, call_to,
                      mode_changes, workers>>

\* POST /voice on app.py
Voice(c) ==
    /\ program = "app.py"
    /\ call_status[c] = "in-progress"
    /\ \E r \in {voice(c, FromNumber, call_to[c])} :
       /\ users' = r.users
       /\ call_sessions' = r.sessions
       /\ call_status' = [call_status EXCEPT ![c] = StatusAfter(r.vr)]
       /\ turn' = [route |-> "/voice", call_sid |-> c, speech |-> "", retry |-> FALSE,
                   before |-> Session(c), vr |-> r.vr, branch |-> r.branch,
                   logged |-> 0, silent_run |-> 0, stored |-> 0,
                   deleted |-> Deleted(c, Session(c),
                                       select_session(r.sessions, c))]
    /\ UNCHANGED <<program, openai_client, call_state, messages, call_logs, call_to,
                   turns, silent, mode_changes, ai_calls, workers>>

\* POST /handle-input on app.py: the next turn of a call that is still up
HandleInput(c) ==
    /\ program = "app.py"
    /\ call_status[c] = "in-progress"
    /\ turns[c] < MaxTurns
    /\ \E speech \in Answers :
       /\ IsSilent(speech) => silent < MaxSilentTurns
       /\ \E outcome \in Outcomes : AppRequest(c, speech, outcome, FALSE)

\* the telephony layer delivers the turn it delivered last a second time
\* (the response to the first delivery was lost)
Retry(c) ==
    /\ program = "app.py"
    /\ turn.route = "/handle-input" /\ turn.call_sid = c /\ ~turn.retry
    /\ turns[c] < MaxTurns
    /\ IsSilent(turn.speech) => silent < MaxSilentTurns
    /\ \E outcome \in Outcomes : AppRequest(c, turn.speech, outcome, TRUE)

\* POST /set-mode on app.py by the logged-in tenant
SetMode(user_id) ==
    /\ program = "app.py"
    /\ mode_changes < MaxModeChanges
    /\ \E mode_field \in {"message", " AI", "", "auto"} :
          users' = set_mode(user_id, mode_field)
    /\ users' # users
    /\ mode_changes' = mode_changes + 1
    /\ UNCHANGED <<program, openai_client, call_sessions, call_state, messages,
                   call_logs, call_to, call_status, turns, silent, ai_calls, turn,
                   workers>>

\* one request to app_backup.py /handle-input
BackupRequest(c, speech, is_retry) ==
    \E r \in {backup_handle_input(c, FromNumber, call_to[c], speech)} :
       /\ call_state' = r.state
       /\ call_logs' = r.logs
       /\ messages' = r.messages
       /\ call_status' = [call_status EXCEPT ![c] = StatusAfter(r.vr)]
       /\ turn' = [route |-> "/handle-input", call_sid |-> c, speech |-> speech,
                   retry |-> is_retry, before |-> Session(c), vr |-> r.vr,
                   branch |-> r.branch,
                   logged |-> BagCardinality(r.logs) - BagCardinality(call_logs),
                   silent_run |-> SilentRun(c, speech),
                   stored |-> Len(r.messages) - Len(messages),
                   deleted |-> Deleted(c, Session(c), select_state(r.state, c))]
       /\ turns' = [turns EXCEPT ![c] = @ + 1]
       /\ silent' = IF IsSilent(speech) THEN silent + 1 ELSE silent
       /\ UNCHANGED <<program, openai_client, users, call_sessions, call_to, ai_calls,
                      mode_changes, workers>>

\* GET/POST /voice on app_backup.py
BackupVoice(c) ==
    /\ program = "app_backup.py"
    /\ call_status[c] = "in-progress"
    /\ call_status' = [call_status EXCEPT ![c] = StatusAfter(backup_voice)]
    /\ turn' = [route |-> "/voice", call_sid |-> c, speech |-> "", retry |-> FALSE,
                before |-> Session(c), vr |-> backup_voice, branch |-> "greeting",
                logged |-> 0, silent_run |-> 0, stored |-> 0,
                deleted |-> turn.deleted]
    /\ UNCHANGED <<program, openai_client, users, call_sessions, call_state, messages,
                   call_logs, call_to, turns, silent, mode_changes, ai_calls, workers>>

\* POST /handle-input on app_backup.py
BackupHandleInput(c) ==
    /\ program = "app_backup.py"
    /\ call_status[c] = "in-progress"
    /\ turns[c] < MaxTurns
    /\ \E speech \in (IF Session(c) = <<>> THEN Utterances
                      ELSE AnswersAt(StageOf(Session(c)))) :
       /\ IsSilent(speech) => silent < MaxSilentTurns
       /\ BackupRequest(c, speech, FALSE)

BackupRetry(c) ==
    /\ program = "app_backup.py"
    /\ turn.route = "/handle-input" /\ turn.call_sid = c /\ ~turn.retry
    /\ turns[c] < MaxTurns
    /\ IsSilent(turn.speech) => silent < MaxSilentTurns
    /\ BackupRequest(c, turn.speech, TRUE)

Next ==
    \/ \E c \in Calls : Voice(c)
    \/ \E c \in Calls : HandleInput(c)
    \/ \E c \in Calls : Retry(c)
    \/ SetMode(1)
    \/ \E c \in Calls : BackupVoice(c)
    \/ \E c \in Calls : BackupHandleInput(c)
    \/ \E c \in Calls : BackupRetry(c)

Spec == Init /\ [][Next]_vars

\* app_backup.py on its own
BackupInit ==
    InitOf([program |-> "app_backup.py", openai_client |-> None, mode |-> "message",
            capture_json |-> <<>>, to |-> "+15550100"])

BackupNext ==
    \/ \E c \in Calls : BackupVoice(c)
    \/ \E c \in Calls : BackupHandleInput(c)
    \/ \E c \in Calls : BackupRetry(c)

SpecBackup == BackupInit /\ [][BackupNext]_vars

-----------------------------------------------------------------------------
(* The session store of app.py under concurrent requests: each worker runs  *)
(* get_or_create_session statement by statement; SQLite runs each statement *)
(* atomically and nothing else is shared                                     *)

StoreCalls == {"CA1", "CA2"}

StoreInit ==
    InitOf([program |-> "app.py", openai_client |-> None, mode |-> "message",
            capture_json |-> json_dumps(DefaultCapture), to |-> TenantNumber])

StoreFrame ==
    UNCHANGED <<program, openai_client, users, call_state, messages, call_logs,
                call_to, call_status, turns, silent, mode_changes, ai_calls, turn>>

\* a request for call c reaches get_or_create_session(c, user_id)
Begin(w, c) ==
    /\ workers[w].pc = "idle"
    /\ workers' = [workers EXCEPT ![w] =
                      [pc |-> "select", call_sid |-> c, user_id |-> 1, row |-> <<>>]]
    /\ UNCHANGED call_sessions
    /\ StoreFrame

\* row = SELECT ... fetchone(); if row: return row
GocSelect(w) ==
    /\ workers[w].pc = "select"
    /\ LET row == fetchone(select_session(call_sessions, workers[w].call_sid)) IN
       workers' = [workers EXCEPT ![w].pc = IF row # <<>> THEN "returned" ELSE "insert",
                                  ![w].row = row]
    /\ UNCHANGED call_sessions
    /\ StoreFrame

\* INSERT INTO call_sessions ...; commit  (IntegrityError fails the request)
GocInsert(w) ==
    /\ workers[w].pc = "insert"
    /\ \E r \in {insert_session(call_sessions,
                                NewSession(workers[w].call_sid, workers[w].user_id))} :
       /\ call_sessions' = r.tbl
       /\ workers' = [workers EXCEPT ![w].pc = IF r.ok THEN "reselect" ELSE "failed"]
    /\ StoreFrame

\* row2 = SELECT ... fetchone(); return row2
GocReselect(w) ==
    /\ workers[w].pc = "reselect"
    /\ workers' = [workers EXCEPT
                      ![w].pc = "returned",
                      ![w].row = fetchone(select_session(call_sessions,
                                                         workers[w].call_sid))]
    /\ UNCHANGED call_sessions
    /\ StoreFrame

\* the request ends and the worker takes the next one
End(w) ==
    /\ workers[w].pc \in {"returned", "failed"}
    /\ workers' = [workers EXCEPT ![w] = Idle]
    /\ UNCHANGED call_sessions
    /\ StoreFrame

StoreNext ==
    \E w \in Workers :
       \/ \E c \in StoreCalls : Begin(w, c)
       \/ GocSelect(w)
       \/ GocInsert(w)
       \/ GocReselect(w)
       \/ End(w)

SpecStore == StoreInit /\ [][StoreNext]_vars

-----------------------------------------------------------------------------
(* Turns of two calls at the same time: each worker serves the turns of its *)
(* own call and runs the statements of update_session, delete_session,      *)
(* get_state and set_state one at a time; `alone` is the record of the call *)
(* in a database no other call uses                                         *)

\* operations one worker runs
MaxOps == 3

CallOf == [w \in Workers |-> IF w = "w1" THEN "CA1" ELSE "CA2"]
WriteStages == {None, "ask_name", "msg_name"}
WritePatches == {[k \in {"name"} |-> "Ann"], [k \in {"reason"} |-> "Bob"]}

IdleWriter(alone, ops) ==
    [pc |-> "idle", ops |-> ops, alone |-> alone, row |-> <<>>, stage |-> None,
     data |-> EmptyDict]

\* both servers, each with an empty session table
WriteInit ==
    \E d \in {dd \in Deployments : /\ dd.to = TenantNumber
                                   /\ dd.openai_client = None
                                   /\ dd.mode = "message"
                                   /\ dd.capture_json # NoPreferredTime} : InitOf(d)

WriteFrame ==
    UNCHANGED <<program, openai_client, users, messages, call_logs, call_to,
                call_status, turns, silent, mode_changes, ai_calls, turn>>

Writer(w) ==
    IF workers[w] = Idle THEN IdleWriter(<<>>, 0) ELSE workers[w]

\* get_or_create_session for the worker's call
WriteCreate(w) ==
    /\ program = "app.py"
    /\ Writer(w).pc = "idle" /\ Writer(w).ops < MaxOps
    /\ call_sessions' = get_or_create_session(call_sessions, CallOf[w], 1).tbl
    /\ workers' = [workers EXCEPT ![w] =
          IdleWriter(get_or_create_session(Writer(w).alone, CallOf[w], 1).tbl,
                     Writer(w).ops + 1)]
    /\ UNCHANGED call_state
    /\ WriteFrame

\* update_session: row = SELECT ...; if not row: return
UpdateSelect(w) ==
    /\ program = "app.py"
    /\ Writer(w).pc = "idle" /\ Writer(w).ops < MaxOps
    /\ \E stage \in WriteStages, data \in WritePatches :
       LET row == fetchone(select_session(call_sessions, CallOf[w])) IN
       workers' = [workers EXCEPT ![w] =
          IF row = <<>>
          THEN IdleWriter(update_session(Writer(w).alone, CallOf[w], stage, data, TRUE),
                          Writer(w).ops + 1)
          ELSE [Writer(w) EXCEPT !.pc = "update", !.row = row, !.stage = stage,
                                 !.data = data]]
    /\ UNCHANGED <<call_sessions, call_state>>
    /\ WriteFrame

\* update_session: merge, bump, UPDATE ... WHERE call_sid=?; commit
UpdateWrite(w) ==
    /\ workers[w] # Idle /\ workers[w].pc = "update"
    /\ LET me == workers[w]
           existing == dict_update(safe_json(me.row[1].data_json, EmptyDict), me.data)
           new_stage == IF me.stage # None THEN me.stage ELSE me.row[1].stage
           step_count == me.row[1].step_count + 1
       IN /\ call_sessions' = sql_update_session(call_sessions, CallOf[w], new_stage,
                                                 step_count, json_dumps(existing))
          /\ workers' = [workers EXCEPT ![w] =
                IdleWriter(update_session(me.alone, CallOf[w], me.stage, me.data, TRUE),
                           me.ops + 1)]
    /\ UNCHANGED call_state
    /\ WriteFrame

\* delete_session
WriteDelete(w) ==
    /\ program = "app.py"
    /\ Writer(w).pc = "idle" /\ Writer(w).ops < MaxOps
    /\ call_sessions' = delete_session(call_sessions, CallOf[w])
    /\ workers' = [workers EXCEPT ![w] =
          IdleWriter(delete_session(Writer(w).alone, CallOf[w]), Writer(w).ops + 1)]
    /\ UNCHANGED call_state
    /\ WriteFrame

\* app_backup.py handle_input: state = get_state(call_sid)
StateRead(w) ==
    /\ program = "app_backup.py"
    /\ Writer(w).pc = "idle" /\ Writer(w).ops < MaxOps
    /\ \E stage \in WriteStages \ {None}, data \in WritePatches :
       workers' = [workers EXCEPT ![w] =
          [Writer(w) EXCEPT !.pc = "set", !.row = <<get_state(call_state, CallOf[w])>>,
                            !.stage = stage, !.data = data]]
    /\ UNCHANGED <<call_sessions, call_state>>
    /\ WriteFrame

\* app_backup.py handle_input: data[key] = ...; set_state(call_sid, intent, stage, data)
StateWrite(w) ==
    /\ workers[w] # Idle /\ workers[w].pc = "set"
    /\ LET me == workers[w]
           st == me.row[1]
           mine == get_state(me.alone, CallOf[w])
       IN /\ call_state' = set_state(call_state, CallOf[w], "message", me.stage,
                                     dict_update(st.data, me.data))
          /\ workers' = [workers EXCEPT ![w] =
                IdleWriter(set_state(me.alone, CallOf[w], "message", me.stage,
                                     dict_update(mine.data, me.data)),
                           me.ops + 1)]
    /\ UNCHANGED call_sessions
    /\ WriteFrame

\* app_backup.py clear_state
StateClear(w) ==
    /\ program = "app_backup.py"
    /\ Writer(w).pc = "idle" /\ Writer(w).ops < MaxOps
    /\ call_state' = clear_state(call_state, CallOf[w])
    /\ workers' = [workers EXCEPT ![w] =
          IdleWriter(clear_state(Writer(w).alone, CallOf[w]), Writer(w).ops + 1)]
    /\ UNCHANGED call_sessions
    /\ WriteFrame

WriteNext ==
    \E w \in Workers :
       \/ WriteCreate(w)
       \/ UpdateSelect(w)
       \/ UpdateWrite(w)
       \/ WriteDelete(w)
       \/ StateRead(w)
       \/ StateWrite(w)
       \/ StateClear(w)

SpecWrites == WriteInit /\ [][WriteNext]_vars

-----------------------------------------------------------------------------
(* The classifier of app_backup.py on its own: detect_intent applied to     *)
(* phrases in several spellings                                              *)

Intents == {"appointment", "hours", "pricing", "message", "general"}

ToUpper ==
    [c \in {CharAt(LowerCase, i) : i \in 1..26} |->
        CharAt(UpperCase, CHOOSE i \in 1..26 : CharAt(LowerCase, i) = c)]

RECURSIVE upper(_)
\* str.upper()
upper(s) ==
    IF s = "" THEN ""
    ELSE (IF CharAt(s, 1) \in DOMAIN ToUpper THEN ToUpper[CharAt(s, 1)] ELSE CharAt(s, 1))
         \o upper(SubSeq(s, 2, Len(s)))

Phrases == {"", "book a visit", "opening hours", "how much", "call me back",
            "leave a message", "hello", "what time do you close", "schedule",
            "voicemail", "fees", "speak to an agent", "Reserve a Table",
            "price list", "human", "book opening hours", "cost of a callback"}
Paddings == {<<"", "">>, <<" ", "">>, <<"", " ">>, <<"\t ", " \n">>}
Spellings(p) == {p, upper(p), lower(p)}
ClassifyTexts ==
    UNION {{pad[1] \o q \o pad[2] : pad \in Paddings, q \in Spellings(p)} : p \in Phrases}

ClassifyInit ==
    InitOf([program |-> "app_backup.py", openai_client |-> None, mode |-> "message",
            capture_json |-> <<>>, to |-> "+15550100"])

\* intent = detect_intent(text)
Classify(text) ==
    /\ turn' = [NoTurn EXCEPT !.route = "detect_intent", !.speech = text,
                              !.branch = detect_intent(text)]
    /\ UNCHANGED <<program, openai_client, users, call_sessions, call_state, messages,
                   call_logs, call_to, call_status, turns, silent, mode_changes,
                   ai_calls, workers>>

ClassifyNext == \E text \in ClassifyTexts : Classify(text)

SpecClassify == ClassifyInit /\ [][ClassifyNext]_vars

-----------------------------------------------------------------------------
(* Properties *)

IsApp == program = "app.py"
Data(rows) == safe_json(rows[1].data_json, EmptyDict)
\* stage and captured data of a session record (no record: <<>>)
View(rows) == IF rows = <<>> THEN <<>> ELSE <<rows[1].stage, Data(rows)>>
FoundCapExceeded == turn.before # <<>> /\ turn.before[1].step_count > MAX_CALL_STEPS

\* C1: in app.py a /handle-input turn that finds the stored step counter of
\* its call above MAX_CALL_STEPS makes no dialog transition (nothing is
\* logged, the provider is not asked), is answered with the apology and a
\* hangup, and leaves no session record for the call
C1_CapForcesTermination ==
    (IsApp /\ turn.route = "/handle-input" /\ FoundCapExceeded)
    => /\ turn.vr = <<Say(Apology), Hangup>>
       /\ turn.branch = "cap"
       /\ turn.logged = 0
       /\ Session(turn.call_sid) = <<>>
       /\ call_status[turn.call_sid] = "completed"

\* the cap ends a call whose tenant has meanwhile switched to message mode
C1_Witness ==
    /\ IsApp /\ turn.route = "/handle-input" /\ FoundCapExceeded
    /\ turn.before[1].stage = "ai"
    /\ users[1].mode = "message"
    /\ Session(turn.call_sid) = <<>>

\* C2: a call that has had MAX_CALL_STEPS + 2 turns delivered has been
\* terminated (step counters 0..MAX_CALL_STEPS pass the cap, the next turn is
\* the forced termination): no call is still listening after that many turns
C2_TurnsBoundedByCap ==
    \A c \in Calls : turns[c] >= MAX_CALL_STEPS + 2 => call_status[c] = "completed"

\* C3: no stored record has stage done, and once a /voice or /handle-input
\* request that found the step cap exceeded has completed, the store holds
\* no record for its call
C3_NoRecordAfterTermination ==
    /\ \A i \in 1..Len(call_sessions) : call_sessions[i].stage # "done"
    /\ \A i \in 1..Len(call_state) : call_state[i].stage # "done"
    /\ (IsApp /\ turn.route \in {"/voice", "/handle-input"} /\ FoundCapExceeded)
       => Session(turn.call_sid) = <<>>

\* C4: below the cap and for a linked tenant, the first turn without speech
\* at a stage is re-prompted and leaves the stage as it was; the second such
\* turn in a row at the same stage ends the call with a goodbye and deletes
\* the session
C4_SilenceToleratedOnce ==
    (/\ turn.route = "/handle-input"
     /\ turn.branch # "not_linked"
     /\ ~FoundCapExceeded)
    => /\ turn.silent_run = 1
          => /\ Listens(turn.vr)
             /\ StageOf(Session(turn.call_sid)) = StageOf(turn.before)
       /\ turn.silent_run >= 2
          => /\ ~Listens(turn.vr)
             /\ \E t \in Spoken(turn.vr) : Contains("goodbye", lower(t))
             /\ Session(turn.call_sid) = <<>>

\* C5: the stored step counter of a session equals the number of turns
\* delivered for its call
C5_StepCountsTurns ==
    IsApp => \A c \in Calls :
                Session(c) # <<>> => Session(c)[1].step_count = turns[c]

\* C6: every request handled by handle_input appended exactly one call_logs row
C6_EveryTurnLogged ==
    turn.route = "/handle-input" => turn.logged = 1

\* C7: a step that leaves the session record of a call in place removes no
\* key from its data
C7_DataAccumulates ==
    [][\A c \in Calls :
          (Session(c) # <<>> /\ Session(c)' # <<>>)
          => (DOMAIN Data(Session(c))) \subseteq (DOMAIN Data(Session(c))')]_vars

\* an ai-mode turn has merged last_user into data captured in message mode
C7_Witness ==
    /\ IsApp /\ turn.route = "/handle-input" /\ turn.branch = "ai"
    /\ Session(turn.call_sid) # <<>>
    /\ {"reason", "name", "last_user"} \subseteq DOMAIN Data(Session(turn.call_sid))

\* C8: get_or_create_session called twice for one call returns the same
\* session both times (stage, data, step counter) and the second call leaves
\* the table as the first left it; for a call that has a record the first
\* call already returns that record and writes nothing, as /voice shows each
\* time it is requested for a call that has a session
C8_GetOrCreateIdempotent ==
    IsApp =>
    /\ \A c \in Calls :
          LET first == get_or_create_session(call_sessions, c, 1)
              second == get_or_create_session(first.tbl, c, 1)
          IN  /\ second.row = first.row
              /\ second.tbl = first.tbl
              /\ Session(c) # <<>>
                 => first.row = Session(c)[1] /\ first.tbl = call_sessions
    /\ (turn.route = "/voice" /\ turn.before # <<>>)
       => Session(turn.call_sid) = turn.before

\* /voice has been requested for a call whose session is under way
C8_Witness ==
    /\ IsApp /\ turn.route = "/voice" /\ turn.before # <<>>
    /\ turn.before[1].stage = "ask_callback"
    /\ turn.before[1].step_count = 2
    /\ Session(turn.call_sid) = turn.before

\* C9: after the second delivery of a turn the stage and the captured data
\* of the call are what they were after the first delivery
C9_RetryIsIdempotent ==
    turn.retry => View(Session(turn.call_sid)) = View(turn.before)

\* C10: call_sessions never holds two records for one call identifier, and
\* a get_or_create_session that has returned holds the one record of its call
C10_OneSessionPerCall ==
    /\ \A c \in StoreCalls : Len(select_session(call_sessions, c)) <= 1
    /\ \A w \in Workers :
          workers[w].pc = "returned"
          => /\ Len(workers[w].row) = 1
             /\ select_session(call_sessions, workers[w].call_sid) = workers[w].row

\* two requests for the same new call both passed the SELECT: one INSERT
\* succeeded and the other failed on the key
C10_Witness ==
    \E w1, w2 \in Workers :
       /\ workers[w1].call_sid = workers[w2].call_sid
       /\ workers[w1].pc = "failed"
       /\ workers[w2].pc \in {"reselect", "returned"}

\* C11: the session record of a call is deleted once: no request re-creates
\* the record of a call after the turn that ended it, so no second deletion
\* of the record of one call identifier ever happens
C11_DeletedOnce ==
    \A c \in Calls : turn.deleted[c] <= 1

CompletesCapture ==
    /\ turn.route = "/handle-input"
    /\ turn.branch \in {"ask_time", "ask_callback_done", "appt_phone", "msg_body"}

\* C13: the turn that completes the data capture of a dialog stores exactly
\* one captured message, and that message belongs to the call
C13_CaptureStoresOneMessage ==
    CompletesCapture
    => /\ turn.stored = 1
       /\ messages # <<>>
       /\ messages[Len(messages)].call_sid = turn.call_sid

\* C12: while the turns of two calls interleave statement by statement, the
\* stored record of each call is at every moment the record the call has
\* when its turns run alone: no statement run for one call changes the stage,
\* data or step counter of the other, and none is lost
C12_CallsIsolated ==
    \A w \in Workers :
       workers[w] # Idle
       => (IF IsApp THEN select_session(call_sessions, CallOf[w])
           ELSE select_state(call_state, CallOf[w])) = workers[w].alone

\* both calls hold a record that has been updated, one of them while the
\* other call was between the read and the write of its own update
C12_Witness ==
    /\ workers["w1"] # Idle /\ workers["w2"] # Idle
    /\ workers["w1"].pc \in {"update", "set"}
    /\ workers["w2"].pc = "idle"
    /\ workers["w2"].ops >= 2
    /\ workers["w2"].alone # <<>>
    /\ workers["w2"].alone[1].stage \in {"ask_name", "msg_name"}
    /\ workers["w1"].alone # <<>>
    /\ workers["w1"].alone # workers["w1"].row

IsBackup == program = "app_backup.py"
\* the utterance holds one of the appointment keywords
AppointmentAsked(speech) ==
    \E k \in AppointmentWords : Contains(k, lower(strip(speech)))
\* the data a stage leaves when it adds what it heard under key
Captured(d, key, speech) ==
    [k \in (DOMAIN d) \cup {key} |-> IF k = key THEN strip(speech) ELSE d[k]]

\* C14: in app_backup.py each non-empty turn of the appointment flow does its
\* part: the root turn with an appointment utterance opens the record at
\* appt_datetime with first_utterance; appt_datetime and appt_name each add
\* the answer they heard and store no message; appt_phone stores exactly one
\* message, tagged appointment, built from the name, the phone number just
\* heard, the appt_datetime and the first_utterance captured by the earlier
\* turns, and leaves no session record and no Gather
C14_AppointmentFlow ==
    (IsBackup /\ turn.route = "/handle-input" /\ ~IsSilent(turn.speech))
    => LET now == Session(turn.call_sid)
           was == turn.before
           stage == StageOf(was)
       IN
       /\ (stage = "root" /\ AppointmentAsked(turn.speech))
          => /\ now # <<>>
             /\ now[1].stage = "appt_datetime" /\ now[1].intent = "appointment"
             /\ Data(now) = [k \in {"first_utterance"} |-> turn.speech]
             /\ turn.stored = 0
       /\ stage = "appt_datetime"
          => /\ now # <<>>
             /\ now[1].stage = "appt_name" /\ now[1].intent = "appointment"
             /\ Data(now) = Captured(Data(was), "appt_datetime", turn.speech)
             /\ turn.stored = 0
       /\ stage = "appt_name"
          => /\ now # <<>>
             /\ now[1].stage = "appt_phone" /\ now[1].intent = "appointment"
             /\ Data(now) = Captured(Data(was), "name", turn.speech)
             /\ turn.stored = 0
       /\ stage = "appt_phone"
          => /\ now = <<>>
             /\ ~Listens(turn.vr)
             /\ turn.stored = 1
             /\ {"first_utterance", "appt_datetime", "name"} \subseteq DOMAIN Data(was)
             /\ messages[Len(messages)] =
                   [call_sid |-> turn.call_sid, from_number |-> FromNumber,
                    name |-> Data(was)["name"], phone |-> strip(turn.speech),
                    message |-> "Appointment request: " \o Data(was)["appt_datetime"]
                                \o " | First: " \o Data(was)["first_utterance"],
                    intent |-> "appointment"]

\* the fourth turn of a call has closed the appointment flow: one message,
\* each field from the turn that asked for it
C14_Witness ==
    /\ IsBackup /\ turn.route = "/handle-input" /\ turn.branch = "appt_phone"
    /\ turns[turn.call_sid] = 4
    /\ Session(turn.call_sid) = <<>>
    /\ messages = <<[call_sid |-> turn.call_sid, from_number |-> FromNumber,
                     name |-> "Ann", phone |-> "5550123",
                     message |-> "Appointment request: Tuesday 3pm | First: Book a visit ",
                     intent |-> "appointment"]>>

\* a non-empty turn of app_backup.py that found its call at stage root and
\* heard an appointment keyword
RootAppointmentTurn ==
    /\ IsBackup /\ turn.route = "/handle-input" /\ ~IsSilent(turn.speech)
    /\ StageOf(turn.before) = "root"
    /\ AppointmentAsked(turn.speech)

AppointmentQuestion == "Sure. What day and time would you like the appointment?"

\* the turn was classified as appointment and moved the call to appt_datetime
RootAppointmentOutcome ==
    /\ Session(turn.call_sid) # <<>>
    /\ Session(turn.call_sid)[1].intent = "appointment"
    /\ Session(turn.call_sid)[1].stage = "appt_datetime"
    /\ \E row \in BagToSet(call_logs) :
          /\ row.call_sid = turn.call_sid /\ row.stage = "root"
          /\ row.transcript = turn.speech /\ row.intent = "appointment"

\* C15 as stated: an utterance with an appointment keyword at root is
\* classified as appointment, moves the session to appt_datetime, and the
\* system utterance of the turn asks for the caller's name
C15_RootAppointmentAsksName ==
    RootAppointmentTurn
    => /\ RootAppointmentOutcome
       /\ \E i \in 1..Len(turn.vr) :
             /\ turn.vr[i].verb = "Gather"
             /\ \E t \in Spoken(<<turn.vr[i]>>) : Contains("name", lower(t))

\* C15 amended: an utterance with an appointment keyword at root is
\* classified as appointment, moves the session to appt_datetime, and the
\* system utterance of the turn asks for the day and time of the appointment
\* (the name is asked for by the next turn)
C15_RootAppointmentAsksDayAndTime ==
    RootAppointmentTurn
    => /\ RootAppointmentOutcome
       /\ turn.vr = make_gather("/handle-input", AppointmentQuestion)
       /\ \A t \in Spoken(turn.vr) : ~Contains("name", lower(t))

\* the caller said "Book a visit " at root and was asked for day and time
C15_Witness ==
    /\ RootAppointmentTurn
    /\ turn.speech = "Book a visit "
    /\ StageOf(Session(turn.call_sid)) = "appt_datetime"
    /\ Listens(turn.vr)
    /\ AppointmentQuestion \in Spoken(turn.vr)

\* the keyword sets in the order of precedence the design gives them
Matches(words, text) == \E k \in words : Contains(k, lower(strip(text)))
Winner(text) ==
    IF Matches(AppointmentWords, text) THEN "appointment"
    ELSE IF Matches(HoursWords, text) THEN "hours"
    ELSE IF Matches(PricingWords, text) THEN "pricing"
    ELSE IF Matches(HumanWords \cup MessageWords, text) THEN "message"
    ELSE "general"
\* the stage the design enters from root for each intent
StageFor(intent) ==
    IF intent = "appointment" THEN "appt_datetime"
    ELSE IF intent = "hours" THEN "hours_location"
    ELSE IF intent = "pricing" THEN "pricing_details"
    ELSE "msg_name"

\* a non-empty turn handled at stage root in deterministic (message) mode
MessageModeRootTurn ==
    /\ turn.route = "/handle-input" /\ ~IsSilent(turn.speech)
    /\ IF IsApp THEN turn.branch = "root" ELSE StageOf(turn.before) = "root"

\* C16: a non-empty root turn in message mode stores the utterance as reason
\* or first_utterance and moves the call to the stage of the utterance's
\* intent: appt_datetime, hours_location, pricing_details, else msg_name
C16_RootRoutesByIntent ==
    MessageModeRootTurn
    => /\ Session(turn.call_sid) # <<>>
       /\ \E key \in {"reason", "first_utterance"} :
             /\ key \in DOMAIN Data(Session(turn.call_sid))
             /\ strip(Data(Session(turn.call_sid))[key]) = strip(turn.speech)
       /\ Session(turn.call_sid)[1].stage = StageFor(Winner(turn.speech))

\* C17: detect_intent answers every text, the empty one included, with one
\* of the five intents, and a text gets the intent of every phrase it differs
\* from only in letter case or in surrounding whitespace
C17_ClassifierTotalAndInsensitive ==
    turn.route = "detect_intent"
    => /\ turn.branch \in Intents
       /\ \A p \in Phrases :
             lower(strip(p)) = lower(strip(turn.speech))
             => detect_intent(p) = turn.branch

\* an upper-case, padded spelling of an appointment phrase was classified
C17_Witness ==
    /\ turn.route = "detect_intent"
    /\ turn.speech = "\t BOOK A VISIT \n"
    /\ turn.branch = "appointment"

\* a non-empty turn of app_backup.py that found its call at stage root
BackupRootTurn ==
    /\ IsBackup /\ turn.route = "/handle-input" /\ ~IsSilent(turn.speech)
    /\ StageOf(turn.before) = "root"

\* the call_logs row of the intent the root turn was given
RootLogged(intent) ==
    \E row \in BagToSet(call_logs) :
       /\ row.call_sid = turn.call_sid /\ row.stage = "root"
       /\ row.transcript = turn.speech /\ row.intent = intent
       /\ row.bot_reply \in Spoken(turn.vr)

\* C18: the root turn of app_backup.py gives an utterance the first intent,
\* in the order appointment, hours, pricing, message, general, whose keywords
\* it holds, and the stage it enters is the stage of that same intent
C18_FirstMatchWins ==
    BackupRootTurn
    => LET winner == Winner(turn.speech) IN
       /\ RootLogged(winner)
       /\ Session(turn.call_sid) # <<>>
       /\ Session(turn.call_sid)[1].stage = StageFor(winner)
       /\ Session(turn.call_sid)[1].intent
             = (IF winner = "general" THEN "message" ELSE winner)

\* an utterance with appointment and hours keywords went the appointment way
C18_Witness ==
    /\ BackupRootTurn
    /\ turn.speech = "book opening hours"
    /\ Matches(AppointmentWords, turn.speech) /\ Matches(HoursWords, turn.speech)
    /\ Session(turn.call_sid) # <<>>
    /\ Session(turn.call_sid)[1].stage = "appt_datetime"
    /\ Winner("Open price list") = "hours"
    /\ Winner("cost of a callback") = "pricing"

\* C19: a root utterance of intent general and one of intent message leave
\* the same kind of record (stage msg_name, stored intent message, the
\* utterance as first_utterance), so the turns that follow cannot tell them
\* apart: msg_name leads to msg_phone, msg_phone to msg_body, and msg_body
\* stores one message tagged message; the root turn itself is logged under
\* its own label, general or message
C19_GeneralAndMessageShareFlow ==
    (IsBackup /\ turn.route = "/handle-input" /\ ~IsSilent(turn.speech))
    => LET now == Session(turn.call_sid)
           stage == StageOf(turn.before)
       IN
       /\ (stage = "root" /\ Winner(turn.speech) \in {"general", "message"})
          => /\ RootLogged(Winner(turn.speech))
             /\ ~RootLogged(CHOOSE l \in {"general", "message"} : l # Winner(turn.speech))
             /\ now # <<>>
             /\ [now[1] EXCEPT !.data_json = <<>>]
                   = [call_sid |-> turn.call_sid, intent |-> "message",
                      stage |-> "msg_name", data_json |-> <<>>]
             /\ Data(now) = [k \in {"first_utterance"} |-> turn.speech]
       /\ stage = "msg_name" => now # <<>> /\ now[1].stage = "msg_phone"
       /\ stage = "msg_phone" => now # <<>> /\ now[1].stage = "msg_body"
       /\ stage = "msg_body"
          => /\ now = <<>>
             /\ turn.stored = 1
             /\ messages[Len(messages)].intent = "message"
             /\ messages[Len(messages)].message = strip(turn.speech)

\* a dialog whose root turn was logged as general has stored its message
C19_Witness ==
    /\ IsBackup /\ turn.route = "/handle-input" /\ turn.branch = "msg_body"
    /\ turns[turn.call_sid] = 4
    /\ \E row \in BagToSet(call_logs) :
          row.stage = "root" /\ row.intent = "general" /\ row.transcript = "hello"
    /\ Len(messages) = 1
    /\ messages[1].intent = "message"

\* no row of users holds the dialed number
NoTenantFor(to_number) ==
    \A i \in 1..Len(users) :
       \/ users[i].bizbot_number = None
       \/ replace_spaces(users[i].bizbot_number) # replace_spaces(norm_phone(to_number))

\* C20: a /voice or /handle-input request of app.py for a dialed number that
\* no tenant owns is answered with the not-linked sentence and a hangup and
\* nothing else; it writes no session for its call, leaves every stored
\* session and every users row as it was, and logs nothing
C20_UnlinkedNumber ==
    [][(IsApp /\ turn' # turn /\ NoTenantFor(call_to[turn'.call_sid]))
       => /\ turn'.vr = <<Say(IF turn'.route = "/voice" THEN NotLinkedVoice
                              ELSE NotLinked), Hangup>>
          /\ call_sessions' = call_sessions
          /\ select_session(call_sessions', turn'.call_sid) = <<>>
          /\ users' = users
          /\ call_logs' = call_logs
          /\ call_status'[turn'.call_sid] = "completed"]_vars

\* a turn for an unlinked number was answered while another call's session
\* was stored
C20_Witness ==
    /\ IsApp /\ turn.route = "/handle-input"
    /\ NoTenantFor(call_to[turn.call_sid])
    /\ turn.vr = <<Say(NotLinked), Hangup>>
    /\ call_sessions = <<OtherSession>>

\* a turn answered by the AI branch of app.py, and the reply it produced
AiTurn == IsApp /\ turn.route = "/handle-input" /\ turn.branch = "ai"
AiReply == turn.vr[1].says[1]

\* C21: an AI-mode turn ends the call and deletes the session exactly when
\* the reply it produced holds a closing marker; on any other reply the call
\* keeps listening and the session stays
C21_ClosingMarkerEndsCall ==
    LET ClosingMarkers == {"goodbye", "bye", "hang up", "never mind", "cancel"}
        HasClosingMarker(text) ==
            \E k \in ClosingMarkers : Contains(k, lower(text))
    IN  AiTurn
    => IF HasClosingMarker(AiReply)
       THEN Session(turn.call_sid) = <<>> /\ ~Listens(turn.vr)
       ELSE Session(turn.call_sid) # <<>> /\ Listens(turn.vr)

\* the values the session data of a call holds
Recorded(rows) == {Data(rows)[k] : k \in DOMAIN Data(rows)}

\* C22: after an AI-mode turn with speech the session data of the call holds
\* the caller's utterance together with the reply produced for it
C22_TurnAndReplyRecorded ==
    AiTurn
    => /\ Session(turn.call_sid) # <<>>
       /\ strip(turn.speech) \in Recorded(Session(turn.call_sid))
       /\ AiReply \in Recorded(Session(turn.call_sid))

FallbackStrings == {AiUnavailable, AiEmpty, AiFailed}

\* C23: when the responder fails, the reply is the one fixed fallback string
\* whatever the failure was, the session stays at stage ai, the call keeps
\* listening, and the session data records the caller's utterance and the
\* fallback reply
C23_FailureFallsBack ==
    (AiTurn /\ AiReply \in FallbackStrings)
    => /\ Cardinality(FallbackStrings) = 1
       /\ Session(turn.call_sid) # <<>>
       /\ Session(turn.call_sid)[1].stage = "ai"
       /\ Listens(turn.vr)
       /\ strip(turn.speech) \in Recorded(Session(turn.call_sid))
       /\ AiReply \in Recorded(Session(turn.call_sid))

\* the tenant's account is in AI mode: handle_input takes the AI branch for
\* every mode other than "message"
AiModeSet == lower(strip(IF users[1].mode \in {None, ""} THEN "message"
                         ELSE users[1].mode)) # "message"

\* C24: in AI mode a turn with speech that finds the step counter of its call
\* at or below the cap leaves the session of the call stored at stage ai with
\* the counter one higher, deletes nothing, and is answered with a prompt the
\* call keeps listening after
C24_AiTurnStaysAi ==
    [][\A c \in Calls :
          (/\ IsApp /\ turns'[c] = turns[c] + 1
           /\ ~NoTenantFor(call_to[c]) /\ AiModeSet
           /\ ~IsSilent(turn'.speech)
           /\ ~(Session(c) # <<>> /\ Session(c)[1].step_count > MAX_CALL_STEPS))
          => /\ turn'.branch = "ai"
             /\ Session(c)' # <<>>
             /\ Session(c)'[1].stage = "ai"
             /\ Session(c)'[1].step_count =
                   (IF Session(c) = <<>> THEN 0 ELSE Session(c)[1].step_count) + 1
             /\ turn'.deleted = turn.deleted
             /\ turn'.vr[1].verb = "Gather"
             /\ Listens(turn'.vr)
             /\ call_status'[c] = "in-progress"]_vars

\* the third AI-mode turn of a call found the session at stage ai and left it
\* there
C24_Witness ==
    /\ AiTurn /\ AiModeSet
    /\ turn.before # <<>> /\ turn.before[1].stage = "ai"
    /\ Session(turn.call_sid) # <<>>
    /\ Session(turn.call_sid)[1].stage = "ai"
    /\ Session(turn.call_sid)[1].step_count = 3
    /\ Listens(turn.vr)

-----------------------------------------------------------------------------
(* Message mode of app.py under each capture configuration, and the same    *)
(* calls when a write to the database raises                                *)

\* capture_json without the collect_preferred_time key
PreferredTimeAbsent ==
    json_dumps([k \in {"collect_reason", "collect_name", "collect_callback"}
                   |-> TRUE])

\* capture_json columns: as signup writes it, NULL (a row older than the
\* column), and with the preferred-time flag off or missing
CaptureConfigs ==
    {json_dumps(DefaultCapture), <<>>, NoPreferredTime, PreferredTimeAbsent}

CaptureInit ==
    \E cj \in CaptureConfigs :
       InitOf([program |-> "app.py", openai_client |-> None, mode |-> "message",
               capture_json |-> cj, to |-> TenantNumber])

CaptureNext ==
    \/ \E c \in Calls : Voice(c)
    \/ \E c \in Calls : HandleInput(c)
    \/ \E c \in Calls : Retry(c)

SpecCapture == CaptureInit /\ [][CaptureNext]_vars

\* app.py _err_500(): what Flask answers when a handler raises; the body is
\* plain text, not TwiML, so the response holds no verb
err_500 ==
    [body |-> "Internal Server Error (check Render logs)", status |-> "500",
     vr |-> <<>>]

\* the first statement of a /handle-input request that writes to the
\* database: none when the number is not linked
first_write(c, speech) ==
    LET r == handle_input(c, FromNumber, call_to[c], speech, DefaultOutcome) IN
    IF r.branch = "not_linked" THEN None
    ELSE IF Session(c) = <<>> THEN "get_or_create_session"
    ELSE IF r.branch = "cap" THEN "delete_session"
    ELSE IF r.branch \in {"no_speech", "other_stage"} THEN "log_call"
    ELSE "update_session"

\* POST /handle-input on app.py while the database refuses the write
\* (sqlite3.OperationalError): the first writing statement of the request
\* raises, nothing is committed, no handler catches the exception and Flask
\* answers through _err_500
FailedTurn(c) ==
    /\ program = "app.py"
    /\ call_status[c] = "in-progress"
    /\ turns[c] < MaxTurns
    /\ \E speech \in Answers :
       /\ IsSilent(speech) => silent < MaxSilentTurns
       /\ first_write(c, speech) # None
       /\ turn' = [route |-> "/handle-input", call_sid |-> c, speech |-> speech,
                   retry |-> FALSE, before |-> Session(c), vr |-> err_500.vr,
                   branch |-> "error_500", logged |-> 0,
                   silent_run |-> SilentRun(c, speech), stored |-> 0,
                   deleted |-> turn.deleted]
       /\ silent' = IF IsSilent(speech) THEN silent + 1 ELSE silent
    /\ call_status' = [call_status EXCEPT ![c] = "failed"]
    /\ turns' = [turns EXCEPT ![c] = @ + 1]
    /\ UNCHANGED <<program, openai_client, users, call_sessions, call_state,
                   messages, call_logs, call_to, mode_changes, ai_calls, workers>>

FaultNext ==
    \/ \E c \in Calls : Voice(c)
    \/ \E c \in Calls : HandleInput(c)
    \/ \E c \in Calls : Retry(c)
    \/ \E c \in Calls : FailedTurn(c)

SpecFaults == CaptureInit /\ [][FaultNext]_vars

\* C25: a /handle-input turn during which a write to the session store or
\* the call log fails is still answered with a response that says something
\* or hangs up
C25_WriteFailureStillAnswers ==
    (IsApp /\ turn.route = "/handle-input" /\ turn.branch = "error_500")
    => \/ \E t \in Spoken(turn.vr) : strip(t) # ""
       \/ HasVerb(turn.vr, "Hangup")

\* the response says something to the caller, or hangs up
AnswersCaller(vr) ==
    \/ \E t \in Spoken(vr) : strip(t) # ""
    \/ HasVerb(vr, "Hangup")

\* C26: whatever branch a /voice or /handle-input request of either program
\* took (tenant found or not, either mode, any stage, speech or none, any
\* step counter), its response holds a spoken sentence or a hangup
C26_EveryBranchAnswers ==
    turn.route \in {"/voice", "/handle-input"}
    => /\ turn.vr # <<>>
       /\ AnswersCaller(turn.vr)

\* a message-mode turn found a session at stage ai (the tenant switched mode
\* during the call) and was answered with a goodbye and a hangup
C26_Witness ==
    /\ IsApp /\ turn.route = "/handle-input" /\ turn.branch = "other_stage"
    /\ turn.before # <<>> /\ turn.before[1].stage = "ai"
    /\ Spoken(turn.vr) # {}
    /\ HasVerb(turn.vr, "Hangup")

\* dicts a caller of update_session may pass: new keys, a key the record
\* holds with another value, several keys, none
UpdatePatches ==
    WritePatches \cup
    { [k \in {"name"} |-> "Zoe"],
      [k \in {"name", "callback"} |-> IF k = "name" THEN "Zoe" ELSE "5550123"],
      EmptyDict }

\* C27: update_session on a stored record leaves every key the patch does not
\* name at its value and sets every key it names, keeps the stored stage when
\* no stage is given and sets the given one otherwise, and touches no other
\* call's record; when the call has no record it changes and creates nothing
C27_UpdateIsKeyedMerge ==
    IsApp =>
    \A c \in StoreCalls, stage \in WriteStages, patch \in UpdatePatches :
       LET was == select_session(call_sessions, c)
           tbl == update_session(call_sessions, c, stage, patch, TRUE)
           now == select_session(tbl, c)
       IN IF was = <<>> THEN tbl = call_sessions
          ELSE /\ Len(tbl) = Len(call_sessions)
               /\ Len(now) = 1
               /\ DOMAIN Data(now) = DOMAIN Data(was) \cup DOMAIN patch
               /\ \A k \in DOMAIN Data(now) :
                     Data(now)[k] = IF k \in DOMAIN patch THEN patch[k]
                                    ELSE Data(was)[k]
               /\ now[1].stage = IF stage = None THEN was[1].stage ELSE stage
               /\ now[1].step_count = was[1].step_count + 1
               /\ \A o \in StoreCalls \ {c} :
                     select_session(tbl, o) = select_session(call_sessions, o)

\* one call's record holds a name and a reason at a stage set by an earlier
\* update while the other call has no record
C27_Witness ==
    /\ IsApp
    /\ select_session(call_sessions, "CA1") # <<>>
    /\ select_session(call_sessions, "CA1")[1].stage = "ask_name"
    /\ select_session(call_sessions, "CA1")[1].step_count = 2
    /\ Data(select_session(call_sessions, "CA1")) =
          [k \in {"name", "reason"} |-> IF k = "name" THEN "Ann" ELSE "Bob"]
    /\ select_session(call_sessions, "CA2") = <<>>

\* C28: a dialed number whose sequence of digits and plus signs equals that
\* of a tenant's number resolves to that tenant, whatever else the string
\* holds (spaces, dashes, brackets): the request is not answered as unlinked
C28_EqualDigitsSameTenant ==
    LET RECURSIVE digits(_)
        digits(s) ==
            IF s = "" THEN ""
            ELSE (IF \E d \in {"+", "0", "1", "2", "3", "4", "5", "6", "7", "8", "9"} :
                        CharAt(s, 1) = d
                  THEN CharAt(s, 1) ELSE "")
                 \o digits(SubSeq(s, 2, Len(s)))
    IN (IsApp /\ turn.route \in {"/voice", "/handle-input"})
       => \A i \in 1..Len(users) :
             (/\ users[i].bizbot_number # None
              /\ digits(users[i].bizbot_number) = digits(call_to[turn.call_sid]))
             => turn.branch # "not_linked"

\* the tenant's capture configuration asks for a preferred time: the flag is
\* set, or the configuration does not hold it
WantsPreferredTime ==
    LET capture == safe_json(users[1].capture_json, DefaultCapture) IN
    "collect_preferred_time" \in DOMAIN capture => capture["collect_preferred_time"]

\* a message-mode /handle-input step of call c with speech that finds the
\* session of the call at `stage`, its counter not above the cap
MessageTurnAt(c, stage) ==
    /\ IsApp /\ turns'[c] = turns[c] + 1
    /\ turn'.branch # "error_500"
    /\ ~NoTenantFor(call_to[c]) /\ ~AiModeSet
    /\ ~IsSilent(turn'.speech)
    /\ Session(c) # <<>>
    /\ strip(Session(c)[1].stage) = stage
    /\ Session(c)[1].step_count <= MAX_CALL_STEPS

\* the step ends the call of c: confirmation, hangup, record deleted, one
\* call_logs row for the turn
EndsCaptured(c) ==
    /\ Session(c)' = <<>>
    /\ turn'.deleted[c] = turn.deleted[c] + 1
    /\ turn'.vr = <<Say(Confirmation), Hangup>>
    /\ turn'.logged = 1
    /\ call_status'[c] = "completed"

\* C29: a turn with speech at ask_callback stores it as callback and moves to
\* ask_time with the call listening when the tenant's collect_preferred_time
\* flag is set or missing, and otherwise ends the call with the confirmation,
\* a hangup and the session deleted; a turn with speech at ask_time always
\* ends the call that way
C29_CallbackThenPreferredTime ==
    [][\A c \in Calls :
          /\ MessageTurnAt(c, "ask_callback")
             => IF WantsPreferredTime
                THEN /\ Session(c)' # <<>>
                     /\ Session(c)'[1].stage = "ask_time"
                     /\ Data(Session(c)') =
                           Captured(Data(Session(c)), "callback", turn'.speech)
                     /\ turn'.deleted = turn.deleted
                     /\ Listens(turn'.vr)
                     /\ call_status'[c] = "in-progress"
                ELSE EndsCaptured(c)
          /\ MessageTurnAt(c, "ask_time") => EndsCaptured(c)]_vars

\* a tenant whose capture configuration lacks the flag: the callback number
\* was stored and the call is at ask_time
C29_Witness ==
    /\ IsApp /\ users[1].capture_json = PreferredTimeAbsent
    /\ turn.route = "/handle-input" /\ turn.branch = "ask_callback"
    /\ Session(turn.call_sid) # <<>>
    /\ Session(turn.call_sid)[1].stage = "ask_time"
    /\ "callback" \in DOMAIN Data(Session(turn.call_sid))
    /\ Listens(turn.vr)

\* C30: in app_backup.py a turn with speech at hours_location stores it as
\* location and one at pricing_details stores it as pricing_details; both
\* move the record to msg_name, keep first_utterance and store no message;
\* from there msg_name, msg_phone and msg_body do what they do for a call
\* that started with intent message, whatever else the data holds: store
\* name, then phone, then one message row tagged message built from them,
\* with the record deleted and no Gather
C30_HoursAndPricingJoinMessageFlow ==
    (IsBackup /\ turn.route = "/handle-input" /\ ~IsSilent(turn.speech))
    => LET now == Session(turn.call_sid)
           was == turn.before
           stage == StageOf(was)
           joins(key) ==
               /\ now # <<>>
               /\ now[1].stage = "msg_name"
               /\ Data(now) = Captured(Data(was), key, turn.speech)
               /\ "first_utterance" \in DOMAIN Data(was)
               /\ Data(now)["first_utterance"] = Data(was)["first_utterance"]
               /\ turn.stored = 0
               /\ Listens(turn.vr)
           asks(next, key, question) ==
               /\ now # <<>>
               /\ now[1].stage = next /\ now[1].intent = "message"
               /\ Data(now) = Captured(Data(was), key, turn.speech)
               /\ turn.stored = 0
               /\ turn.vr = make_gather("/handle-input", question)
       IN
       /\ stage = "hours_location" => joins("location")
       /\ stage = "pricing_details" => joins("pricing_details")
       /\ stage = "msg_name"
          => asks("msg_phone", "name",
                  "Thanks. Please confirm the best phone number for a callback.")
       /\ stage = "msg_phone"
          => asks("msg_body", "phone", "Great. Now, please say your message.")
       /\ stage = "msg_body"
          => /\ now = <<>>
             /\ ~Listens(turn.vr)
             /\ turn.stored = 1
             /\ {"name", "phone"} \subseteq DOMAIN Data(was)
             /\ messages[Len(messages)] =
                   [call_sid |-> turn.call_sid, from_number |-> FromNumber,
                    name |-> Data(was)["name"], phone |-> Data(was)["phone"],
                    message |-> strip(turn.speech), intent |-> "message"]

\* the fifth turn of a call that asked for the opening hours and named a
\* location has stored the caller's message
C30_Witness ==
    /\ IsBackup /\ turn.route = "/handle-input" /\ turn.branch = "msg_body"
    /\ turns[turn.call_sid] = 5
    /\ {"first_utterance", "location", "name", "phone"} \subseteq DOMAIN Data(turn.before)
    /\ Data(turn.before)["first_utterance"] = "opening hours"
    /\ Session(turn.call_sid) = <<>>
    /\ messages = <<[call_sid |-> turn.call_sid, from_number |-> FromNumber,
                     name |-> "Ann", phone |-> "5550123", message |-> "Ann",
                     intent |-> "message"]>>

\* C31: in AI mode of app.py, for a call whose turns all carried speech, each
\* of the first MAX_CALL_STEPS + 1 turns is answered through ai_reply (the
\* counter the turn finds is one less than the turn's number, 0 up to
\* MAX_CALL_STEPS), and turn MAX_CALL_STEPS + 2 is answered with the apology
\* and a hangup and deletes the session
C31_AiCallEndsAtCap ==
    [][\A c \in Calls :
          (/\ IsApp /\ turns'[c] = turns[c] + 1
           /\ ~NoTenantFor(call_to[c])
           /\ AiModeSet /\ mode_changes = 0
           /\ silent' = 0
           /\ turns'[c] <= MAX_CALL_STEPS + 2)
          => IF turns'[c] <= MAX_CALL_STEPS + 1
             THEN /\ turn'.branch = "ai"
                  /\ Session(c)' # <<>>
                  /\ Session(c)'[1].step_count = turns'[c]
                  /\ Listens(turn'.vr)
             ELSE /\ turn'.branch = "cap"
                  /\ turn'.before # <<>>
                  /\ turn'.before[1].step_count = MAX_CALL_STEPS + 1
                  /\ turn'.vr = <<Say(Apology), Hangup>>
                  /\ Session(c)' = <<>>]_vars

\* turn MAX_CALL_STEPS + 2 of an AI-mode call without a silent turn was the
\* forced termination
C31_Witness ==
    /\ IsApp /\ AiModeSet /\ mode_changes = 0 /\ silent = 0
    /\ turn.route = "/handle-input" /\ turn.branch = "cap"
    /\ turns[turn.call_sid] = MAX_CALL_STEPS + 2
    /\ Session(turn.call_sid) = <<>>

\* the counter each stage of message capture is stored with: one bump per
\* captured field
StepsAtStage ==
    [s \in {"root", "ask_name", "ask_callback", "ask_time"} |->
        IF s = "root" THEN 0 ELSE IF s = "ask_name" THEN 1
        ELSE IF s = "ask_callback" THEN 2 ELSE 3]

\* C32: while the tenant of app.py stays in message mode every stored session
\* has a step counter of at most 4 (it is the number of fields captured so
\* far: 0 at root up to 3 at ask_time; the fourth bump is deleted with the
\* record), so with MAX_CALL_STEPS >= 4 no turn is ended by the cap
C32_MessageModeBelowCap ==
    (IsApp /\ ~AiModeSet /\ mode_changes = 0)
    => /\ MAX_CALL_STEPS >= 4
       /\ turn.branch # "cap"
       /\ \A i \in 1..Len(call_sessions) :
             /\ call_sessions[i].step_count <= 4
             /\ call_sessions[i].stage \in DOMAIN StepsAtStage
             /\ call_sessions[i].step_count = StepsAtStage[call_sessions[i].stage]

\* a message-mode call has reached ask_time, its counter at 3, after a turn
\* without speech
C32_Witness ==
    /\ IsApp /\ ~AiModeSet /\ mode_changes = 0
    /\ silent > 0
    /\ turns["CA1"] >= 4
    /\ Session("CA1") # <<>>
    /\ Session("CA1")[1].stage = "ask_time"
    /\ Session("CA1")[1].step_count = 3

\* C33: in message mode of app.py a turn with speech that finds the session
\* of its call at a stage other than root, ask_name, ask_callback and
\* ask_time (stage ai, left by a call that began in AI mode) is answered with
\* the goodbye and a hangup, is logged, and deletes the record of the call
\* as it found it: every other record stays and nothing is stored
C33_UnknownStageEndsCall ==
    [][\A c \in Calls :
          (/\ IsApp /\ turns'[c] = turns[c] + 1
           /\ ~NoTenantFor(call_to[c]) /\ ~AiModeSet
           /\ ~IsSilent(turn'.speech)
           /\ Session(c) # <<>>
           /\ Session(c)[1].step_count <= MAX_CALL_STEPS
           /\ strip(Session(c)[1].stage) \notin
                 {"", None, "root", "ask_name", "ask_callback", "ask_time"})
          => /\ turn'.branch = "other_stage"
             /\ turn'.vr = <<Say("Thanks for calling. Goodbye."), Hangup>>
             /\ turn'.logged = 1
             /\ call_sessions' = SelectSeq(call_sessions, LAMBDA r : r.call_sid # c)
             /\ turn'.deleted[c] = turn.deleted[c] + 1
             /\ call_status'[c] = "completed"]_vars

\* the tenant switched from ai to message during a call; the next turn found
\* stage ai with last_user stored and ended the call
C33_Witness ==
    /\ IsApp /\ ~AiModeSet /\ mode_changes = 1
    /\ turn.route = "/handle-input" /\ turn.branch = "other_stage"
    /\ turn.before # <<>> /\ turn.before[1].stage = "ai"
    /\ "last_user" \in DOMAIN Data(turn.before)
    /\ Session(turn.call_sid) = <<>>
    /\ call_status[turn.call_sid] = "completed"

\* C34: every row a request of either program adds to call_logs belongs to
\* the call of the request and holds as its stage the stage the record of
\* the call had when the request arrived (root when it had none), also when
\* the request moved the call to another stage or deleted the record
C34_LogHoldsStageAtStart ==
    [][\A row \in BagToSet(call_logs' (-) call_logs) :
          /\ row.call_sid = turn'.call_sid
          /\ row.stage = StageOf(Session(turn'.call_sid))
          /\ row.stage = StageOf(turn'.before)]_vars

\* the turn at ask_name moved the call to ask_callback and its row in
\* call_logs says ask_name
C34_Witness ==
    /\ IsApp /\ turn.route = "/handle-input" /\ turn.branch = "ask_name"
    /\ turn.logged = 1
    /\ Session(turn.call_sid) # <<>>
    /\ Session(turn.call_sid)[1].stage = "ask_callback"
    /\ \E row \in BagToSet(call_logs) :
          /\ row.call_sid = turn.call_sid /\ row.stage = "ask_name"
          /\ row.transcript = strip(turn.speech)
    /\ \A row \in BagToSet(call_logs) : row.stage # "ask_callback"

\* the stages app_backup.py stores between the turns of a dialog
CaptureStages ==
    {"hours_location", "pricing_details", "appt_datetime", "appt_name",
     "appt_phone", "msg_name", "msg_phone", "msg_body"}

\* C35: every record of call_state in app_backup.py is at one of the eight
\* capture stages, never root or done; a call has a record exactly while it
\* is inside a dialog (the last turn handled for it carried speech and its
\* response listens on); and no turn takes the restart branch
C35_RecordOnlyMidDialog ==
    IsBackup
    => /\ \A i \in 1..Len(call_state) : call_state[i].stage \in CaptureStages
       /\ turn.branch # "restart"
       /\ turn.route = "/handle-input"
          => (Session(turn.call_sid) # <<>>
              <=> (~IsSilent(turn.speech) /\ Listens(turn.vr)))

\* the third turn of a call left its record at msg_body, the caller still
\* being listened to
C35_Witness ==
    /\ IsBackup /\ turn.route = "/handle-input" /\ turn.branch = "msg_phone"
    /\ turns[turn.call_sid] = 3
    /\ Len(call_state) = 1
    /\ call_state[1].stage = "msg_body"
    /\ call_status[turn.call_sid] = "in-progress"
====
